---- MODULE Spec2Model ----
(***************************************************************************)
(* State-machine model of solana-x402-gateway: the settlement cache        *)
(* (PaymentState), the Submit-and-Settle middleware (x402ResourceServer),  *)
(* the Verify-Only middleware (X402Middleware) and the transaction         *)
(* handler (verifySignedTransaction, sendSignedTransaction,                *)
(* verifyTransactionConfirmed).                                            *)
(***************************************************************************)
EXTENDS Integers, Sequences, FiniteSets, TLC

VARIABLES
  now,      \* Date.now(), in clock ticks
  store,    \* PaymentState.store of x402ResourceServer: ref -> [expiry, signature]
  paid,     \* PaymentState.store of X402Middleware: ref -> expiry
  ret,      \* the last PaymentState call and what it returned
  cfg,      \* the deployed middleware and its configured prices
  req,      \* the in-flight requests: id -> request record
  issued,   \* the references emitted in 402 responses, oldest first
  chain,    \* the ledger: the transactions broadcast so far, oldest first,
            \* each with who sent it and whether it has been processed
  marks,    \* every markPaid call so far: <<mode, ref, signature, request>>
  inp,      \* input of the pure-function specifications
  out       \* result of the pure-function specifications

vars == <<now, store, paid, ret, cfg, req, issued, chain, marks, inp, out>>

----------------------------------------------------------------------------
(* Bounds of the model *)

\* the clock runs from 1 to MaxNow
MaxNow == 4
\* ttlSeconds * 1000, in clock ticks
TtlMs == 2

----------------------------------------------------------------------------
(* Small helpers *)

NoFn == [x \in {} |-> 0]

Restrict(f, S) == [x \in S |-> f[x]]

Range(s) == {s[k] : k \in DOMAIN s}

NoVal == "undefined"

----------------------------------------------------------------------------
(* PaymentState with settlement signature (src/src/types.ts) *)

\* mutant of isPaid: the expiry comparison is dropped
isPaid_noExpiry(st, reference, t) ==
  reference \in DOMAIN st

\* isPaid's return value
isPaid(st, reference, t) ==
  IF reference \notin DOMAIN st THEN FALSE
  ELSE IF t > st[reference].expiry THEN FALSE
  ELSE TRUE

\* mutant of isPaidStore: an expired hit empties the store
isPaidStore_clear(st, reference, t) ==
  IF reference \in DOMAIN st /\ t > st[reference].expiry THEN NoFn ELSE st

\* mutant of isPaidStore: an unexpired hit starts the entry's lifetime anew
isPaidStore_touch(st, reference, t) ==
  IF reference \notin DOMAIN st THEN st
  ELSE IF t > st[reference].expiry
  THEN Restrict(st, DOMAIN st \ {reference})
  ELSE [st EXCEPT ![reference].expiry = t + TtlMs]

\* isPaid's side effect: an expired hit is deleted
isPaidStore(st, reference, t) ==
  IF reference \in DOMAIN st /\ t > st[reference].expiry
  THEN Restrict(st, DOMAIN st \ {reference})
  ELSE st

\* mutant of getSignature: the stored signature is never found
getSignature_null(st, reference) == NoVal

\* entry?.signature || null : an empty signature reads as null
getSignature(st, reference) ==
  IF reference \in DOMAIN st /\ st[reference].signature # ""
  THEN st[reference].signature
  ELSE NoVal

\* mutant of markPaid: the entry is not keyed by the reference alone
markPaid_everyKey(st, reference, signature, t) ==
  [x \in DOMAIN st \cup {reference, "r1", "r2"} |->
     [expiry |-> t + TtlMs, signature |-> signature]]

markPaid(st, reference, signature, t) ==
  [x \in DOMAIN st \cup {reference} |->
     IF x = reference THEN [expiry |-> t + TtlMs, signature |-> signature]
     ELSE st[x]]

\* mutant of cleanupStore: every entry is deleted
cleanupStore_all(st, t) == NoFn

\* mutant of cleanupStore: the boundary is not strict
cleanupStore_nonStrict(st, t) ==
  Restrict(st, {x \in DOMAIN st : ~(t >= st[x].expiry)})

cleanupStore(st, t) ==
  Restrict(st, {x \in DOMAIN st : ~(t > st[x].expiry)})

cleanupCount(st, t) ==
  Cardinality({x \in DOMAIN st : t > st[x].expiry})

----------------------------------------------------------------------------
(* PaymentState without signature (src/unnamed/part_001) *)

\* mutant of isPaidV1: the boundary is read the wrong way round
isPaidV1_flipped(st, reference, t) ==
  reference \in DOMAIN st /\ st[reference] # 0 /\ t > st[reference]

\* isPaid's return value; an expiry of 0 is falsy and reads as absent
isPaidV1(st, reference, t) ==
  IF reference \notin DOMAIN st \/ st[reference] = 0 THEN FALSE
  ELSE IF t > st[reference] THEN FALSE
  ELSE TRUE

isPaidV1Store(st, reference, t) ==
  IF reference \in DOMAIN st /\ st[reference] # 0 /\ t > st[reference]
  THEN Restrict(st, DOMAIN st \ {reference})
  ELSE st

markPaidV1(st, reference, t) ==
  [x \in DOMAIN st \cup {reference} |->
     IF x = reference THEN t + TtlMs ELSE st[x]]

removeV1(st, reference) ==
  Restrict(st, DOMAIN st \ {reference})

cleanupV1Store(st, t) ==
  Restrict(st, {x \in DOMAIN st : ~(t > st[x])})

cleanupV1Count(st, t) ==
  Cardinality({x \in DOMAIN st : t > st[x]})

sizeV1(st) == Cardinality(DOMAIN st)

----------------------------------------------------------------------------
(* The settlement cache on its own: any sequence of PaymentState calls and  *)
(* clock advances, on one instance of each PaymentState class.             *)

CacheRefs == {"r1", "r2"}
CacheSigs == {"sigA", "sigB"}

InitCache ==
  /\ now = 1
  /\ store = NoFn
  /\ paid = NoFn
  /\ ret = [op |-> "init"]
  /\ cfg = [mode |-> "none", prices |-> <<>>]
  /\ req = NoFn
  /\ issued = <<>>
  /\ chain = <<>>
  /\ marks = {}
  /\ inp = NoVal
  /\ out = [done |-> FALSE]

EngineIdle == UNCHANGED <<cfg, req, issued, chain, inp, out>>

\* marks keeps, per class and reference, when markPaid was last called with
\* no remove since
LastMark(cls, reference, t) ==
  {m \in marks : ~(m.cls = cls /\ m.ref = reference)}
    \cup {[cls |-> cls, ref |-> reference, at |-> t]}

Unmark(cls, reference) ==
  {m \in marks : ~(m.cls = cls /\ m.ref = reference)}

\* Date.now() moves on
Tick ==
  /\ now < MaxNow
  /\ now' = now + 1
  /\ ret' = [op |-> "tick"]
  /\ UNCHANGED <<store, paid, marks>>
  /\ EngineIdle

CallIsPaid ==
  \E r \in CacheRefs :
    /\ ret' = [op |-> "isPaid", ref |-> r, value |-> isPaid(store, r, now),
               size |-> Cardinality(DOMAIN store), had |-> r \in DOMAIN store]
    /\ store' = isPaidStore(store, r, now)
    /\ UNCHANGED <<now, paid, marks>>
    /\ EngineIdle

CallGetSignature ==
  \E r \in CacheRefs :
    /\ ret' = [op |-> "getSignature", ref |-> r, value |-> getSignature(store, r)]
    /\ UNCHANGED <<now, store, paid, marks>>
    /\ EngineIdle

CallMarkPaid ==
  \E r \in CacheRefs, s \in CacheSigs :
    /\ store' = markPaid(store, r, s, now)
    /\ ret' = [op |-> "markPaid", ref |-> r, sig |-> s]
    /\ marks' = LastMark("PaymentState", r, now)
    /\ UNCHANGED <<now, paid>>
    /\ EngineIdle

CallCleanup ==
  /\ ret' = [op |-> "cleanup", value |-> cleanupCount(store, now),
             size |-> Cardinality(DOMAIN store)]
  /\ store' = cleanupStore(store, now)
  /\ UNCHANGED <<now, paid, marks>>
  /\ EngineIdle

CallIsPaidV1 ==
  \E r \in CacheRefs :
    /\ ret' = [op |-> "isPaidV1", ref |-> r, value |-> isPaidV1(paid, r, now),
               size |-> sizeV1(paid), had |-> r \in DOMAIN paid]
    /\ paid' = isPaidV1Store(paid, r, now)
    /\ UNCHANGED <<now, store, marks>>
    /\ EngineIdle

CallMarkPaidV1 ==
  \E r \in CacheRefs :
    /\ paid' = markPaidV1(paid, r, now)
    /\ ret' = [op |-> "markPaidV1", ref |-> r]
    /\ marks' = LastMark("PaymentStateV1", r, now)
    /\ UNCHANGED <<now, store>>
    /\ EngineIdle

CallRemoveV1 ==
  \E r \in CacheRefs :
    /\ paid' = removeV1(paid, r)
    /\ ret' = [op |-> "removeV1", ref |-> r]
    /\ marks' = Unmark("PaymentStateV1", r)
    /\ UNCHANGED <<now, store>>
    /\ EngineIdle

CallCleanupV1 ==
  /\ ret' = [op |-> "cleanupV1", value |-> cleanupV1Count(paid, now),
             size |-> sizeV1(paid)]
  /\ paid' = cleanupV1Store(paid, now)
  /\ UNCHANGED <<now, store, marks>>
  /\ EngineIdle

CallSizeV1 ==
  /\ ret' = [op |-> "sizeV1", value |-> sizeV1(paid)]
  /\ UNCHANGED <<now, store, paid, marks>>
  /\ EngineIdle

NextCache ==
  \/ Tick
  \/ CallIsPaid
  \/ CallGetSignature
  \/ CallMarkPaid
  \/ CallCleanup
  \/ CallIsPaidV1
  \/ CallMarkPaidV1
  \/ CallRemoveV1
  \/ CallCleanupV1
  \/ CallSizeV1

SpecCache == InitCache /\ [][NextCache]_vars

----------------------------------------------------------------------------
(* C1: whenever isPaid has just returned true for a reference, that        *)
(* reference has an entry and the clock is not past the entry's expiry;    *)
(* this holds for both PaymentState classes after any sequence of          *)
(* markPaid, isPaid, remove, cleanup and clock advances.                   *)
C1_PaidOnlyBeforeExpiry ==
  /\ (ret.op = "isPaid" /\ ret.value) =>
        /\ ret.ref \in DOMAIN store
        /\ now <= store[ret.ref].expiry
  /\ (ret.op = "isPaidV1" /\ ret.value) =>
        /\ ret.ref \in DOMAIN paid
        /\ now <= paid[ret.ref]

\* isPaid answers true exactly at the expiry instant, for both classes
C1_Witness ==
  \/ /\ ret.op = "isPaid" /\ ret.value
     /\ now = store[ret.ref].expiry
  \/ /\ ret.op = "isPaidV1" /\ ret.value
     /\ now = paid[ret.ref]

----------------------------------------------------------------------------
(* C12: after markPaid(ref) at t0 (an insert, or an overwrite that resets   *)
(* the expiry to t0 + ttl) with no later remove, isPaid(ref) answers true   *)
(* at every time up to and including t0 + ttl and false at every later      *)
(* time; an isPaid call that finds the entry expired deletes it, so the     *)
(* size goes down by one. Both PaymentState classes.                        *)
C12_PaidExactlyUntilExpiry ==
  \A m \in marks :
    /\ (m.cls = "PaymentState" /\ ret.op = "isPaid" /\ ret.ref = m.ref) =>
         /\ ret.value = (now <= m.at + TtlMs)
         /\ ret.value => /\ m.ref \in DOMAIN store
                         /\ Cardinality(DOMAIN store) = ret.size
         /\ (~ret.value /\ ret.had) =>
              /\ m.ref \notin DOMAIN store
              /\ Cardinality(DOMAIN store) = ret.size - 1
    /\ (m.cls = "PaymentStateV1" /\ ret.op = "isPaidV1" /\ ret.ref = m.ref) =>
         /\ ret.value = (now <= m.at + TtlMs)
         /\ ret.value => /\ m.ref \in DOMAIN paid
                         /\ sizeV1(paid) = ret.size
         /\ (~ret.value /\ ret.had) =>
              /\ m.ref \notin DOMAIN paid
              /\ sizeV1(paid) = ret.size - 1

\* an expired entry of two is found by isPaid and deleted
C12_Witness ==
  /\ ret.op = "isPaidV1"
  /\ ret.had
  /\ ~ret.value
  /\ ret.size = 2
  /\ sizeV1(paid) = 1
  /\ \E m \in marks : m.cls = "PaymentStateV1" /\ m.ref = ret.ref
                      /\ now = m.at + TtlMs + 1

(* C13: cleanup() deletes exactly the entries with now > expiry, leaves the *)
(* others as they were and returns the number deleted, so that with N of M  *)
(* entries expired it returns N and leaves M - N; the entries it deletes    *)
(* are exactly those present for which isPaid would answer false at that    *)
(* instant. Both PaymentState classes.                                      *)
C13_CleanupDeletesExactlyExpired ==
  [][/\ ret'.op = "cleanup" =>
          /\ DOMAIN store' = {x \in DOMAIN store : ~(now > store[x].expiry)}
          /\ \A x \in DOMAIN store' : store'[x] = store[x]
          /\ ret'.value = Cardinality({x \in DOMAIN store : now > store[x].expiry})
          /\ Cardinality(DOMAIN store') = Cardinality(DOMAIN store) - ret'.value
          /\ \A x \in DOMAIN store :
               (x \notin DOMAIN store') <=> ~isPaid(store, x, now)
     /\ ret'.op = "cleanupV1" =>
          /\ DOMAIN paid' = {x \in DOMAIN paid : ~(now > paid[x])}
          /\ \A x \in DOMAIN paid' : paid'[x] = paid[x]
          /\ ret'.value = Cardinality({x \in DOMAIN paid : now > paid[x]})
          /\ sizeV1(paid') = sizeV1(paid) - ret'.value
          /\ \A x \in DOMAIN paid :
               (x \notin DOMAIN paid') <=> ~isPaidV1(paid, x, now)]_vars

\* one of two entries is expired, the other is at its expiry instant
C13_Witness ==
  /\ ret.op = "cleanup"
  /\ ret.value = 1
  /\ ret.size = 2
  /\ Cardinality(DOMAIN store) = 1
  /\ \E x \in DOMAIN store : store[x].expiry = now

----------------------------------------------------------------------------
(* Transaction handler, pure parts (src/src/transactionHandler.ts)         *)

\* the largest list of token balances drawn as an input
MaxBal == 2

SeqsUpTo(S, n) == UNION {[1..k -> S] : k \in 0..n}

RECURSIVE Pow10(_)
Pow10(d) == IF d = 0 THEN 1 ELSE 10 * Pow10(d - 1)

\* a decimal string as digits m and a count k of fraction digits: m / 10^k
DecimalOf(amount) ==
  CASE amount = "0.05" -> [m |-> 5, k |-> 2]
    [] amount = "0.000249" -> [m |-> 249, k |-> 6]
    [] amount = "1" -> [m |-> 1, k |-> 0]
    [] amount = "0.29" -> [m |-> 29, k |-> 2]
    [] amount = "0.1" -> [m |-> 1, k |-> 1]
    [] amount = "1.15" -> [m |-> 115, k |-> 2]

\* Number.prototype.toString of a configured price
NumberToString(n) ==
  CASE n = [m |-> 5, k |-> 2] -> "0.05"
    [] n = [m |-> 249, k |-> 6] -> "0.000249"
    [] n = [m |-> 1, k |-> 0] -> "1"

\* floor(amount * 10^decimals) over the integers
ExactRequiredRaw(amount, decimals) ==
  LET n == DecimalOf(amount)
  IN IF decimals >= n.k THEN n.m * Pow10(decimals - n.k)
     ELSE n.m \div Pow10(n.k - decimals)

\* the (amount, decimals) pairs, among the amounts of DecimalOf and up to
\* 10 decimals, whose IEEE-754 double product parseFloat(amount) * 10^decimals
\* lies just below the exact integer; for every other pair the floor of the
\* double product is the exact floor
FloatProductBelow ==
  {<<"0.000249", 6>>,
   <<"0.000249", 8>>,
   <<"0.000249", 9>>,
   <<"0.29", 2>>,
   <<"0.29", 5>>,
   <<"0.29", 8>>,
   <<"1.15", 2>>,
   <<"1.15", 5>>,
   <<"1.15", 8>>}

\* mutant of calculateRequiredAmountRaw: one raw unit too few is asked
calculateRequiredAmountRaw_short(amount, decimals) ==
  ExactRequiredRaw(amount, decimals) - 1

\* BigInt(Math.floor(parseFloat(amount) * Number(10n ** BigInt(decimals))))
calculateRequiredAmountRaw(amount, decimals) ==
  IF <<amount, decimals>> \in FloatProductBelow
  THEN ExactRequiredRaw(amount, decimals) - 1
  ELSE ExactRequiredRaw(amount, decimals)

\* tokenBalances.find(bal => bal.mint === mint)?.uiTokenAmount?.decimals :
\* <<d>>, or <<>> when there is no such entry or it has no decimals
decimalsFromBalances(mint, tokenBalances) ==
  LET idx == {k \in DOMAIN tokenBalances : tokenBalances[k].mint = mint}
      first == CHOOSE k \in idx : \A j \in idx : k <= j
  IN IF idx = {} THEN <<>> ELSE tokenBalances[first].decimals

\* the first balance entry of the mint decides; else getTokenSupply; else 6
getTokenDecimals(mint, tokenBalances, supply) ==
  IF decimalsFromBalances(mint, tokenBalances) # <<>>
  THEN decimalsFromBalances(mint, tokenBalances)[1]
  ELSE CASE supply.kind = "throws" -> 6
         [] supply.kind = "bigint" -> supply.decimals
         [] supply.kind = "number" ->
              IF supply.decimals = 0 THEN 6 ELSE supply.decimals
         [] OTHER -> 6

\* balanceChanges.get(key) || 0; the map is evaluated once
MapGet(m, key) ==
  CHOOSE r \in {IF key \in DOMAIN f THEN f[key] ELSE 0 : f \in {m}} : TRUE

\* balanceChanges.set(key, v); the map and the value are evaluated once
MapSet(m, key, v) ==
  CHOOSE r \in {[x \in DOMAIN f \cup {key} |-> IF x = key THEN w ELSE f[x]] :
                  f \in {m}, w \in {v}} : TRUE

\* the first loop: balanceChanges.set(key, -amount), entry by entry
RECURSIVE preLoop(_, _, _, _)
preLoop(m, preBalances, k, mint) ==
  IF k > Len(preBalances) THEN m
  ELSE LET bal == preBalances[k]
       IN IF bal.mint = mint /\ bal.owner # ""
          THEN preLoop(MapSet(m, <<bal.owner, mint>>, 0 - bal.amount),
                       preBalances, k + 1, mint)
          ELSE preLoop(m, preBalances, k + 1, mint)

\* the second loop: balanceChanges.set(key, current + amount)
RECURSIVE postLoop(_, _, _, _)
postLoop(m, postBalances, k, mint) ==
  IF k > Len(postBalances) THEN m
  ELSE LET bal == postBalances[k]
       IN IF bal.mint = mint /\ bal.owner # ""
          THEN postLoop(MapSet(m, <<bal.owner, mint>>,
                               MapGet(m, <<bal.owner, mint>>) + bal.amount),
                        postBalances, k + 1, mint)
          ELSE postLoop(m, postBalances, k + 1, mint)

buildBalanceChanges(preBalances, postBalances, mint) ==
  postLoop(preLoop(NoFn, preBalances, 1, mint), postBalances, 1, mint)

\* the reference check of verifyTransactionConfirmed: accountKeys.some(...)
referenceInAccountKeys(accountKeys, reference) ==
  \E k \in DOMAIN accountKeys : accountKeys[k] = reference

\* mutant of verifyTransactionConfirmed's reference check: it is skipped
referenceBound_skipped(tx, reference) == TRUE

referenceBound(tx, reference) ==
  referenceInAccountKeys(tx.accountKeys, reference)

\* tx is what getTransaction answered: fetch is "throws", "null" or "ok"
verifyTransactionConfirmed(tx, paymentRequirement, supply) ==
  IF tx.fetch # "ok" THEN FALSE
  ELSE IF tx.err THEN FALSE
  ELSE
    LET decimals == getTokenDecimals(paymentRequirement.mint,
                                     tx.post \o tx.pre, supply)
        balanceChanges == buildBalanceChanges(tx.pre, tx.post,
                                              paymentRequirement.mint)
        recipientReceivedRaw ==
          MapGet(balanceChanges,
                 <<paymentRequirement.recipient, paymentRequirement.mint>>)
        requiredAmountRaw ==
          calculateRequiredAmountRaw(paymentRequirement.amount, decimals)
    IN IF recipientReceivedRaw < requiredAmountRaw THEN FALSE
       ELSE referenceBound(tx, paymentRequirement.reference)

----------------------------------------------------------------------------
(* The Confirmer as a pure function: one finalized transaction record and  *)
(* one requirement are drawn, verifyTransactionConfirmed is applied.       *)

USDC == "USDC"
OtherMint == "WSOL"
Merchant == "merchant"
Payer == "payer"

\* what getTokenSupply answers for a mint
TokenSupply(mint) ==
  IF mint = USDC THEN [kind |-> "number", decimals |-> 6]
  ELSE [kind |-> "number", decimals |-> 2]

ConfirmEntries ==
  {[owner |-> Merchant, mint |-> USDC, amount |-> a, decimals |-> <<6>>] :
      a \in {0, 248, 249}}
  \cup {[owner |-> Payer, mint |-> USDC, amount |-> 249, decimals |-> <<6>>],
        [owner |-> Merchant, mint |-> OtherMint, amount |-> 249, decimals |-> <<2>>]}

\* what getTokenSupply can answer: it throws, value.decimals is absent, or
\* it is a number or a bigint
Supplies ==
  {[kind |-> "throws", decimals |-> 0], [kind |-> "absent", decimals |-> 0]}
  \cup [kind : {"number", "bigint"}, decimals : {0, 2, 9}]

\* balance entries with and without a decimals field, of two mints
DecimalsEntries ==
  [owner : {Merchant}, mint : {USDC, OtherMint}, amount : {0},
   decimals : {<<>>, <<0>>, <<6>>}]

InitDecimals ==
  /\ now = 1
  /\ store = NoFn
  /\ paid = NoFn
  /\ ret = [op |-> "init"]
  /\ cfg = [mode |-> "none", prices |-> <<>>]
  /\ req = NoFn
  /\ issued = <<>>
  /\ chain = <<>>
  /\ marks = {}
  /\ inp \in [mint : {USDC}, tokenBalances : SeqsUpTo(DecimalsEntries, MaxBal),
               supply : Supplies]
  /\ out = [done |-> FALSE]

ApplyDecimals ==
  /\ ~out.done
  /\ out' = [done |-> TRUE,
             value |-> getTokenDecimals(inp.mint, inp.tokenBalances, inp.supply)]
  /\ UNCHANGED <<now, store, paid, ret, cfg, req, issued, chain, marks, inp>>

NextDecimals == ApplyDecimals

SpecDecimals == InitDecimals /\ [][NextDecimals]_vars

\* a parsed inner token transfer of 249 raw units to the merchant whose
\* accounts name the reference r1
InnerTransfer ==
  [parsed |-> TRUE, type |-> "transfer", mint |-> USDC,
   destination |-> Merchant, amount |-> 249, accounts |-> <<"r1">>]

ConfirmRecords ==
  {[fetch |-> "throws", err |-> FALSE, pre |-> <<>>, post |-> <<>>,
    accountKeys |-> <<>>, inner |-> <<>>],
   [fetch |-> "null", err |-> FALSE, pre |-> <<>>, post |-> <<>>,
    accountKeys |-> <<>>, inner |-> <<>>]}
  \cup [fetch : {"ok"}, err : BOOLEAN,
        pre : SeqsUpTo(ConfirmEntries, MaxBal),
        post : SeqsUpTo(ConfirmEntries, MaxBal),
        accountKeys : {<<>>, <<"payerKey", "r1">>, <<"payerKey", "r2">>},
        inner : {<<>>, <<InnerTransfer>>}]

ConfirmRequirements ==
  [network : {"devnet"}, mint : {USDC}, amount : {"0.000249", "1"},
   recipient : {Merchant}, reference : {"r1"}, expires_in : {300}]

InitConfirm ==
  /\ now = 1
  /\ store = NoFn
  /\ paid = NoFn
  /\ ret = [op |-> "init"]
  /\ cfg = [mode |-> "none", prices |-> <<>>]
  /\ req = NoFn
  /\ issued = <<>>
  /\ chain = <<>>
  /\ marks = {}
  /\ inp \in [tx : ConfirmRecords, requirement : ConfirmRequirements]
  /\ out = [done |-> FALSE]

ApplyConfirm ==
  /\ ~out.done
  /\ out' = [done |-> TRUE, value |-> verifyTransactionConfirmed(
                          inp.tx, inp.requirement,
                          TokenSupply(inp.requirement.mint))]
  /\ UNCHANGED <<now, store, paid, ret, cfg, req, issued, chain, marks, inp>>

NextConfirm == ApplyConfirm

SpecConfirm == InitConfirm /\ [][NextConfirm]_vars

----------------------------------------------------------------------------
(* calculateRequiredAmountRaw applied to drawn amounts and decimals         *)

\* the largest decimals value drawn as an input
MaxDecimals == 8

\* the decimal strings drawn as amounts
Amounts == {"0.05", "0.000249", "1", "0.29", "0.1", "1.15"}

InitAmount ==
  /\ now = 1
  /\ store = NoFn
  /\ paid = NoFn
  /\ ret = [op |-> "init"]
  /\ cfg = [mode |-> "none", prices |-> <<>>]
  /\ req = NoFn
  /\ issued = <<>>
  /\ chain = <<>>
  /\ marks = {}
  /\ inp \in [amount : Amounts, decimals : 0..MaxDecimals]
  /\ out = [done |-> FALSE]

ApplyAmount ==
  /\ ~out.done
  /\ out' = [done |-> TRUE,
             value |-> calculateRequiredAmountRaw(inp.amount, inp.decimals)]
  /\ UNCHANGED <<now, store, paid, ret, cfg, req, issued, chain, marks, inp>>

NextAmount == ApplyAmount

SpecAmount == InitAmount /\ [][NextAmount]_vars

----------------------------------------------------------------------------
\* sum of the raw amounts of the entries of one owner and mint
RECURSIVE SumFor(_, _, _)
SumFor(balances, owner, mint) ==
  IF balances = <<>> THEN 0
  ELSE (IF Head(balances).owner = owner /\ Head(balances).mint = mint
        THEN Head(balances).amount ELSE 0)
       + SumFor(Tail(balances), owner, mint)

\* the recipient's net received raw amount: all post-entries minus all pre-entries
NetReceived(tx, owner, mint) ==
  SumFor(tx.post, owner, mint) - SumFor(tx.pre, owner, mint)

----------------------------------------------------------------------------
(* buildBalanceChanges applied to drawn snapshot lists                      *)

InitDelta ==
  /\ now = 1
  /\ store = NoFn
  /\ paid = NoFn
  /\ ret = [op |-> "init"]
  /\ cfg = [mode |-> "none", prices |-> <<>>]
  /\ req = NoFn
  /\ issued = <<>>
  /\ chain = <<>>
  /\ marks = {}
  /\ inp \in [pre : SeqsUpTo(ConfirmEntries, MaxBal),
               post : SeqsUpTo(ConfirmEntries, MaxBal),
               mint : {USDC, OtherMint}]
  /\ out = [done |-> FALSE]

ApplyDelta ==
  /\ ~out.done
  /\ out' = [done |-> TRUE,
             value |-> buildBalanceChanges(inp.pre, inp.post, inp.mint)]
  /\ UNCHANGED <<now, store, paid, ret, cfg, req, issued, chain, marks, inp>>

NextDelta == ApplyDelta

SpecDelta == InitDelta /\ [][NextDelta]_vars

----------------------------------------------------------------------------
(* C5: for a finalized, error-free transaction the Confirmer answers true   *)
(* when the recipient's net received raw amount reaches                     *)
(* floor(amount * 10^decimals) and the reference is among the account keys, *)
(* false when the net received amount is below it, and false when the      *)
(* record is absent or carries an execution error.                          *)
C5_ConfirmerDecides ==
  out.done =>
    LET tx == inp.tx
        rq == inp.requirement
        received == NetReceived(tx, rq.recipient, rq.mint)
        requiredRaw == ExactRequiredRaw(rq.amount, 6)
    IN IF tx.fetch # "ok" \/ tx.err THEN out.value = FALSE
       ELSE /\ (received >= requiredRaw
                /\ referenceInAccountKeys(tx.accountKeys, rq.reference))
                  => out.value = TRUE
            /\ received < requiredRaw => out.value = FALSE

----------------------------------------------------------------------------
(* Transaction handler, the Validator and the Submitter                    *)
(* (src/src/transactionHandler.ts)                                         *)

\* transactionBuffer.length < 64
MinTxLen == 64
\* const maxAttempts = 30
maxAttempts == 30

\* the simulation errors of the blockhash-expired class
BlockhashClass == {"BlockhashNotFound", "Transaction expired", "blockhash not found"}

\* mutant of ErrIncludes: every error string holds every needle
ErrIncludes_always(errStr, needle) == TRUE

\* errStr.includes(needle), for the error strings of the model
ErrIncludes(errStr, needle) ==
  \/ errStr = "BlockhashNotFound" /\ needle = "BlockhashNotFound"
  \/ errStr = "Transaction expired" /\ needle = "expired"
  \/ errStr = "blockhash not found" /\ needle = "blockhash"

\* blob is [len, nsig]; sim is what simulateTransaction answered
verifySignedTransaction(blob, sim, paymentRequirement, supply) ==
  IF blob.len = 0 THEN [valid |-> FALSE, calls |-> <<>>]
  ELSE IF blob.len < MinTxLen THEN [valid |-> FALSE, calls |-> <<>>]
  ELSE IF blob.nsig = 0 THEN [valid |-> FALSE, calls |-> <<>>]
  ELSE IF sim.kind = "throws"
       THEN [valid |-> FALSE, calls |-> <<"simulateTransaction">>]
  ELSE IF /\ sim.err # ""
          /\ ~ErrIncludes(sim.err, "BlockhashNotFound")
          /\ ~ErrIncludes(sim.err, "expired")
          /\ ~ErrIncludes(sim.err, "blockhash")
       THEN [valid |-> FALSE, calls |-> <<"simulateTransaction">>]
  ELSE IF sim.sigFailLog
       THEN [valid |-> FALSE, calls |-> <<"simulateTransaction">>]
  ELSE
    LET all == sim.post \o sim.pre
        viaRpc == decimalsFromBalances(paymentRequirement.mint, all) = <<>>
        decimals == getTokenDecimals(paymentRequirement.mint, all, supply)
        balanceChanges == buildBalanceChanges(sim.pre, sim.post,
                                              paymentRequirement.mint)
        recipientReceivedRaw ==
          MapGet(balanceChanges,
                 <<paymentRequirement.recipient, paymentRequirement.mint>>)
        requiredAmountRaw ==
          calculateRequiredAmountRaw(paymentRequirement.amount, decimals)
        calls == IF viaRpc THEN <<"simulateTransaction", "getTokenSupply">>
                 ELSE <<"simulateTransaction">>
    IN [valid |-> ~(recipientReceivedRaw < requiredAmountRaw), calls |-> calls]

\* the blobs and simulation answers drawn as inputs
ValidateBlobs == [len : {0, MinTxLen - 1, MinTxLen}, nsig : {0, 1}]

ValidateSims ==
  {[kind |-> "throws", err |-> "", sigFailLog |-> FALSE,
    pre |-> <<>>, post |-> <<>>]}
  \cup [kind : {"ok"},
        err : {"", "BlockhashNotFound", "InstructionError"},
        sigFailLog : BOOLEAN,
        pre : SeqsUpTo(ConfirmEntries, 1),
        post : SeqsUpTo(ConfirmEntries, 1)]

InitValidate ==
  /\ now = 1
  /\ store = NoFn
  /\ paid = NoFn
  /\ ret = [op |-> "init"]
  /\ cfg = [mode |-> "none", prices |-> <<>>]
  /\ req = NoFn
  /\ issued = <<>>
  /\ chain = <<>>
  /\ marks = {}
  /\ inp \in [blob : ValidateBlobs, sim : ValidateSims,
               requirement : ConfirmRequirements]
  /\ out = [done |-> FALSE]

ApplyValidate ==
  /\ ~out.done
  /\ out' = [done |-> TRUE,
             value |-> verifySignedTransaction(
                         inp.blob, inp.sim, inp.requirement,
                         TokenSupply(inp.requirement.mint))]
  /\ UNCHANGED <<now, store, paid, ret, cfg, req, issued, chain, marks, inp>>

NextValidate == ApplyValidate

SpecValidate == InitValidate /\ [][NextValidate]_vars

\* response is [shape, value]: a bare string, an object with a value field,
\* or anything else
extractSignature(response) ==
  IF response.shape = "string" THEN response.value
  ELSE IF response.shape = "object" /\ response.value # "" THEN response.value
  ELSE NoVal

\* what getSignatureStatuses answers at one attempt: nothing before poll.at,
\* then "processed" for poll.low attempts, poll.status from then on. A status
\* is "null" (absent), "processed", "confirmed", "finalized", "error" (err
\* set, not yet confirmed), "confirmedError" (err set, confirmationStatus
\* confirmed) or "throws"
StatusAt(poll, attempt) ==
  IF attempt < poll.at THEN "null"
  ELSE IF attempt < poll.at + poll.low THEN "processed"
  ELSE poll.status

\* mutant of statusErr: no status counts as failed
statusErr_never(status) == FALSE

\* status.err
statusErr(status) == status \in {"error", "confirmedError"}

\* status.confirmationStatus
confirmationStatus(status) ==
  CASE status \in {"confirmed", "confirmedError"} -> "confirmed"
    [] status = "finalized" -> "finalized"
    [] OTHER -> "processed"

\* mutant of pollLoop: a poll that throws counts as a confirmation
pollLoop_swallow(signature, poll, attempt) ==
  [signature |-> signature, success |-> TRUE, polls |-> attempt + 1,
   error |-> ""]

\* mutant of pollLoop: one more poll than the budget before giving up
pollLoop_extra(signature, poll, attempt) ==
  [signature |-> signature, success |-> FALSE, polls |-> maxAttempts + 1,
   error |-> "timeout"]

\* the polling loop of sendSignedTransaction from one attempt on; polls counts
\* the getSignatureStatuses calls made
RECURSIVE pollLoop(_, _, _)
pollLoop(signature, poll, attempt) ==
  IF ~(attempt < maxAttempts)
  THEN [signature |-> signature, success |-> FALSE, polls |-> attempt,
        error |-> "timeout"]
  ELSE LET status == StatusAt(poll, attempt)
       IN IF status = "throws"
          THEN [signature |-> "", success |-> FALSE, polls |-> attempt + 1,
                error |-> "thrown"]
          ELSE IF status # "null" /\ statusErr(status)
          THEN [signature |-> signature, success |-> FALSE,
                polls |-> attempt + 1, error |-> "failed"]
          ELSE IF /\ status # "null"
                  /\ confirmationStatus(status) \in {"confirmed", "finalized"}
          THEN [signature |-> signature, success |-> TRUE,
                polls |-> attempt + 1, error |-> ""]
          ELSE pollLoop(signature, poll, attempt + 1)

\* sendSignedTransaction as a whole: the broadcast, the signature, the polls
sendSignedTransaction(response, poll) ==
  IF response.shape = "throws"
  THEN [signature |-> "", success |-> FALSE, polls |-> 0, error |-> "thrown"]
  ELSE LET signature == extractSignature(response)
       IN IF signature = NoVal \/ signature = ""
          THEN [signature |-> "", success |-> FALSE, polls |-> 0,
                error |-> "invalid"]
          ELSE pollLoop(signature, poll, 0)

\* the acknowledgements of sendTransaction drawn as inputs
Acks ==
  {[shape |-> "throws", value |-> ""]}
  \cup [shape : {"string", "object", "other"}, value : {"", "s1"}]

\* the status histories drawn as inputs
Polls ==
  [at : 0..(maxAttempts + 1), low : {0, 1},
   status : {"processed", "confirmed", "finalized", "error",
             "confirmedError", "throws"}]

InitSubmit ==
  /\ now = 1
  /\ store = NoFn
  /\ paid = NoFn
  /\ ret = [op |-> "init"]
  /\ cfg = [mode |-> "none", prices |-> <<>>]
  /\ req = NoFn
  /\ issued = <<>>
  /\ chain = <<>>
  /\ marks = {}
  /\ inp \in [response : Acks, poll : Polls]
  /\ out = [done |-> FALSE]

ApplySubmit ==
  /\ ~out.done
  /\ out' = [done |-> TRUE,
             value |-> sendSignedTransaction(inp.response, inp.poll)]
  /\ UNCHANGED <<now, store, paid, ret, cfg, req, issued, chain, marks, inp>>

NextSubmit == ApplySubmit

SpecSubmit == InitSubmit /\ [][NextSubmit]_vars

----------------------------------------------------------------------------
(* The ledger as the engine sees it: every signed transaction a client can  *)
(* hand in, with what the RPC node answers for it.                         *)

Network == "devnet"
Networks == {"devnet", "mainnet-beta"}

\* references a client makes up, and the addresses generateKeyPair yields,
\* in the order it yields them
ClientRefs == {"r1", "r2"}
GenRefs == <<"g1", "g2", "g3", "g4">>

Bal(owner, amount) ==
  [owner |-> owner, mint |-> USDC, amount |-> amount, decimals |-> <<6>>]

PreBal == <<Bal(Payer, 100000), Bal(Merchant, 0)>>
PostBal(a) == <<Bal(Payer, 100000 - a), Bal(Merchant, a)>>

\* a transfer of 50000 raw units (0.05 USDC) to the merchant that simulates,
\* is acknowledged, is confirmed at the second poll and is finalized
Transfer(sig, keys) ==
  [sig |-> sig,
   blob |-> [len |-> 200, nsig |-> 1],
   sim |-> [kind |-> "ok", err |-> "", sigFailLog |-> FALSE,
            pre |-> PreBal, post |-> PostBal(50000)],
   ack |-> [shape |-> "string", value |-> sig],
   poll |-> [at |-> 1, low |-> 0, status |-> "confirmed"],
   rec |-> [fetch |-> "ok", err |-> FALSE, pre |-> PreBal,
            post |-> PostBal(50000), accountKeys |-> keys, inner |-> <<>>],
   supply |-> "number"]

\* balance entries that carry no decimals field
NoDecimals(balances) ==
  [k \in DOMAIN balances |-> [balances[k] EXCEPT !.decimals = <<>>]]

\* the same balance entries in another mint
InMint(balances, mint) ==
  [k \in DOMAIN balances |-> [balances[k] EXCEPT !.mint = mint]]

TxIds == {"t1", "t2", "tg", "tb", "tu", "terr", "tto", "tbad", "tlow",
          "tsimx", "tpollx", "tfetchx", "tnd", "tbh", "tbhl", "tempty"}

Tx(t) ==
  CASE t = "t1" -> Transfer("s1", <<"payerKey", "r1">>)
    [] t = "t2" -> Transfer("s2", <<"payerKey", "r2">>)
    [] t = "tg" -> Transfer("sg", <<"payerKey", "g1">>)
    [] t = "tb" -> Transfer("sb", <<"payerKey", "r1", "r2">>)
    [] t = "tu" -> Transfer("su", <<"payerKey">>)
    [] t = "terr" ->
         [Transfer("se", <<"payerKey", "r1">>) EXCEPT
            !.poll = [at |-> 0, low |-> 0, status |-> "error"],
            !.rec.err = TRUE]
    [] t = "tto" ->
         [Transfer("st", <<"payerKey", "r1">>) EXCEPT
            !.poll = [at |-> maxAttempts, low |-> 0, status |-> "confirmed"],
            !.rec.fetch = "null"]
    [] t = "tbad" ->
         [Transfer("sx", <<"payerKey", "r1">>) EXCEPT
            !.sim.err = "InstructionError"]
    [] t = "tlow" ->
         [Transfer("sl", <<"payerKey", "r1">>) EXCEPT
            !.sim.post = PostBal(49999),
            !.rec.post = PostBal(49999)]
    [] t = "tsimx" ->
         [Transfer("sy", <<"payerKey", "r1">>) EXCEPT !.sim.kind = "throws"]
    [] t = "tpollx" ->
         [Transfer("sp", <<"payerKey", "r1">>) EXCEPT
            !.poll = [at |-> 0, low |-> 0, status |-> "throws"]]
    [] t = "tfetchx" ->
         [Transfer("sf", <<"payerKey", "r1">>) EXCEPT !.rec.fetch = "throws"]
    [] t = "tbh" ->
         [Transfer("sh", <<"payerKey", "r1">>) EXCEPT
            !.sim.err = "BlockhashNotFound"]
    [] t = "tbhl" ->
         [Transfer("sk", <<"payerKey", "r1">>) EXCEPT
            !.sim.err = "BlockhashNotFound",
            !.sim.post = PostBal(49999),
            !.rec.post = PostBal(49999)]
    [] t = "tmint" ->
         [Transfer("sm", <<"payerKey", "r1">>) EXCEPT
            !.sim.pre = InMint(PreBal, OtherMint),
            !.sim.post = InMint(PostBal(50000), OtherMint),
            !.rec.pre = InMint(PreBal, OtherMint),
            !.rec.post = InMint(PostBal(50000), OtherMint)]
    [] t = "tpb" ->
         [Transfer("sq", <<"payerKey", "r1">>) EXCEPT
            !.sim.pre = InMint(<<Bal(Payer, 2000000), Bal(Merchant, 0)>>,
                               OtherMint),
            !.sim.post = InMint(<<Bal(Payer, 1000000),
                                  Bal(Merchant, 1000000)>>, OtherMint),
            !.rec.pre = InMint(<<Bal(Payer, 2000000), Bal(Merchant, 0)>>,
                               OtherMint),
            !.rec.post = InMint(<<Bal(Payer, 1000000),
                                  Bal(Merchant, 1000000)>>, OtherMint)]
    [] t = "tempty" ->
         [Transfer("", <<>>) EXCEPT
            !.blob = [len |-> 0, nsig |-> 0],
            !.sim.kind = "throws",
            !.ack = [shape |-> "throws", value |-> ""],
            !.rec.fetch = "null"]
    [] t = "tnd" ->
         [Transfer("sn", <<"payerKey", "r1">>) EXCEPT
            !.sim.pre = NoDecimals(PreBal),
            !.sim.post = NoDecimals(PostBal(50000)),
            !.rec.pre = NoDecimals(PreBal),
            !.rec.post = NoDecimals(PostBal(50000)),
            !.supply = "throws"]

\* what getTokenSupply answers while a transaction is looked at
SupplyOf(t, mint) ==
  IF Tx(t).supply = "throws" THEN [kind |-> "throws", decimals |-> 0]
  ELSE TokenSupply(mint)

\* the generated references a transaction names: its signer learnt them
\* from a 402 response
GenKeysOf(t) == Range(Tx(t).rec.accountKeys) \cap Range(GenRefs)

\* simulateTransaction on a transaction the ledger has already processed
AlreadyProcessedSim ==
  [kind |-> "ok", err |-> "AlreadyProcessed", sigFailLog |-> FALSE,
   pre |-> <<>>, post |-> <<>>]

----------------------------------------------------------------------------
(* x402ResourceServer (src/src/resourceServer.ts)                          *)

\* const DEFAULT_TTL_SECONDS = 300
DEFAULT_TTL_SECONDS == 300

PriceA == [mint |-> USDC, amount |-> [m |-> 5, k |-> 2], recipient |-> Merchant]
PriceB == [mint |-> OtherMint, amount |-> [m |-> 1, k |-> 0],
           recipient |-> Merchant]

\* the deployments: x402ResourceServer with its options.paymentRequirements,
\* or X402Middleware with its one price and merchantWallet
Configs ==
  {[mode |-> "settle", prices |-> p] :
      p \in {<<>>, <<PriceA>>, <<PriceA, PriceB>>}}
  \cup {[mode |-> "verify", prices |-> <<PriceA>>]}

Reqs == {"a", "b"}

NoHeader == [kind |-> "none", network |-> "", tx |-> "", ref |-> ""]

\* the X-PAYMENT header values a client sends: none, one that does not parse,
\* one whose fields are not all strings, or an encoded payload
SettleHeaders ==
  {NoHeader,
   [kind |-> "unparseable", network |-> "", tx |-> "", ref |-> ""],
   [kind |-> "badFields", network |-> "", tx |-> "", ref |-> ""]}
  \cup [kind : {"payload"}, network : Networks, tx : TxIds,
        ref : ClientRefs \cup Range(issued)]

NoResponse == [status |-> 0, body |-> <<>>, header |-> [encoding |-> "none"]]

\* a request: where its handler stands, what it was sent, what its handler
\* found (steps), its ledger calls and its PaymentState calls in order, the
\* signature it holds, what it answered, how often it called next() and
\* sent a response, which of its ledger calls threw, and the execution error
\* its simulation reported
NewReq ==
  [pc |-> "idle", mode |-> "", hdr |-> NoHeader, steps |-> <<>>,
   calls |-> <<>>, cache |-> <<>>, sig |-> "", outcome |-> "",
   resp |-> NoResponse, nexts |-> 0, sends |-> 0, threw |-> <<>>,
   simErr |-> "none"]

\* Buffer.from(JSON.stringify({success: true, transaction}), 'utf-8')
\*   .toString('base64')
encodeResponse(transactionSignature) ==
  [encoding |-> "base64",
   json |-> [success |-> TRUE, transaction |-> transactionSignature]]

\* mutant of findMatchingPaymentRequirement: a payload with an empty
\* transaction matches nothing
findMatchingPaymentRequirement_txChecked(payload, configs, network) ==
  IF \/ Len(configs) = 0
     \/ payload.network # network
     \/ Tx(payload.tx).blob.len = 0
  THEN <<>>
  ELSE <<[network |-> network,
          mint |-> configs[1].mint,
          amount |-> NumberToString(configs[1].amount),
          recipient |-> configs[1].recipient,
          reference |-> payload.ref,
          expires_in |-> DEFAULT_TTL_SECONDS]>>

\* mutant of findMatchingPaymentRequirement: the network is not compared
findMatchingPaymentRequirement_anyNetwork(payload, configs, network) ==
  IF Len(configs) = 0 THEN <<>>
  ELSE <<[network |-> network,
          mint |-> configs[1].mint,
          amount |-> NumberToString(configs[1].amount),
          recipient |-> configs[1].recipient,
          reference |-> payload.ref,
          expires_in |-> DEFAULT_TTL_SECONDS]>>

\* <<>> for null, <<requirement>> otherwise
findMatchingPaymentRequirement(paymentPayload, paymentRequirements, network) ==
  IF Len(paymentRequirements) = 0 \/ paymentPayload.network # network
  THEN <<>>
  ELSE <<[network |-> network,
          mint |-> paymentRequirements[1].mint,
          amount |-> NumberToString(paymentRequirements[1].amount),
          recipient |-> paymentRequirements[1].recipient,
          reference |-> paymentPayload.ref,
          expires_in |-> DEFAULT_TTL_SECONDS]>>

\* the requirement the handler works with after findMatchingPaymentRequirement
RequirementOf(r) ==
  findMatchingPaymentRequirement(r.hdr, cfg.prices, Network)[1]

\* mutant of paymentRequiredBody: only the first configured price is listed
paymentRequiredBody_firstOnly(paymentRequirements, references) ==
  [k \in 1..(IF Len(paymentRequirements) = 0 THEN 0 ELSE 1) |->
     [network |-> Network,
      mint |-> paymentRequirements[k].mint,
      amount |-> NumberToString(paymentRequirements[k].amount),
      recipient |-> paymentRequirements[k].recipient,
      reference |-> references[k],
      expires_in |-> DEFAULT_TTL_SECONDS]]

\* the body of sendPaymentRequiredResponse: one requirement per configured
\* price, each with its own new reference
paymentRequiredBody(paymentRequirements, references) ==
  [k \in 1..Len(paymentRequirements) |->
     [network |-> Network,
      mint |-> paymentRequirements[k].mint,
      amount |-> NumberToString(paymentRequirements[k].amount),
      recipient |-> paymentRequirements[k].recipient,
      reference |-> references[k],
      expires_in |-> DEFAULT_TTL_SECONDS]]

\* how many addresses generateKeyPair has yielded so far
Generated == Cardinality(Range(issued) \cap Range(GenRefs))

\* the next n addresses generateKeyPair yields
NewReferences(n) == [k \in 1..n |-> GenRefs[Generated + k]]

ChainTxs == {chain[k].tx : k \in DOMAIN chain}

\* the transactions the ledger has processed
LandedTxs == {chain[k].tx : k \in {j \in DOMAIN chain : chain[j].landed}}

\* mutant of afterVerify: after an invalid result nothing is sent
afterVerify_hang(verificationResult) ==
  IF ~verificationResult.valid THEN "hang" ELSE "send"

\* mutant of afterVerify: an invalid verification result is not acted on
afterVerify_ignored(verificationResult) == "send"

\* if (!verificationResult.valid) return sendPaymentRequiredResponse(...)
afterVerify(verificationResult) ==
  IF ~verificationResult.valid THEN "reject" ELSE "send"

\* mutant of afterSend: a failed submission is tried again
afterSend_retry(sendResult) ==
  IF ~sendResult.success THEN "send" ELSE "confirm"

\* mutant of afterSend: the confirmation is asked for whatever the polls said
afterSend_ignored(sendResult) == "confirm"

\* if (!sendResult.success) return sendPaymentRequiredResponse(...)
afterSend(sendResult) ==
  IF ~sendResult.success THEN "reject" ELSE "confirm"

\* mutant of afterConfirm: a failed confirmation is not acted on
afterConfirm_ignored(isConfirmed) == "markPaid"

\* if (!isConfirmed) return sendPaymentRequiredResponse(...)
afterConfirm(isConfirmed) ==
  IF ~isConfirmed THEN "reject" ELSE "markPaid"

\* mutant of rejectResponse: the response names the step that failed
rejectResponse_leaky(r, body) ==
  [status |-> 402, body |-> body, header |-> r.resp.header,
   error |-> r.steps[Len(r.steps)]]

\* res.status(402).json(body): nothing of the request's pass goes into it
rejectResponse(r, body) ==
  [status |-> 402, body |-> body, header |-> r.resp.header]

InitEngine ==
  /\ now = 1
  /\ store = NoFn
  /\ paid = NoFn
  /\ ret = [op |-> "init"]
  /\ cfg \in Configs
  /\ req = [i \in Reqs |-> NewReq]
  /\ issued = <<>>
  /\ chain = <<>>
  /\ marks = {}
  /\ inp = NoVal
  /\ out = [done |-> FALSE]

\* Date.now() moves on while requests are in flight
Advance ==
  /\ now < MaxNow
  /\ now' = now + 1
  /\ UNCHANGED <<store, paid, ret, cfg, req, issued, chain, marks, inp, out>>

\* the setInterval callback of x402ResourceServer
SweepTimer ==
  /\ cfg.mode = "settle"
  /\ cleanupCount(store, now) > 0
  /\ store' = cleanupStore(store, now)
  /\ UNCHANGED <<now, paid, ret, cfg, req, issued, chain, marks, inp, out>>

\* the handler up to its first await: header, payload, requirement, cache
Receive(i) ==
  /\ cfg.mode = "settle"
  /\ req[i].pc = "idle"
  /\ \E h \in SettleHeaders :
       /\ h.kind = "payload" => GenKeysOf(h.tx) \subseteq Range(issued)
       /\ LET r0 == [req[i] EXCEPT !.mode = "settle", !.hdr = h]
              match == findMatchingPaymentRequirement(h, cfg.prices, Network)
          IN IF h.kind = "none"
             THEN /\ req' = [req EXCEPT ![i] =
                       [r0 EXCEPT !.pc = "reject", !.steps = <<"noHeader">>]]
                  /\ UNCHANGED <<store, marks>>
             ELSE IF h.kind \in {"unparseable", "badFields"}
             THEN /\ req' = [req EXCEPT ![i] =
                       [r0 EXCEPT !.pc = "reject", !.steps = <<"malformed">>]]
                  /\ UNCHANGED <<store, marks>>
             ELSE IF match = <<>>
             THEN /\ req' = [req EXCEPT ![i] =
                       [r0 EXCEPT !.pc = "reject", !.steps = <<"noMatch">>]]
                  /\ UNCHANGED <<store, marks>>
             ELSE IF isPaid(store, h.ref, now)
             THEN LET cachedSignature == getSignature(store, h.ref)
                      signature == IF cachedSignature # NoVal
                                   THEN cachedSignature ELSE "cached"
                  IN /\ req' = [req EXCEPT ![i] =
                          [r0 EXCEPT !.pc = "done",
                                     !.steps = <<"cacheHit">>,
                                     !.cache = <<"isPaid", "getSignature">>,
                                     !.outcome = "proceed", !.nexts = @ + 1,
                                     !.resp.header = encodeResponse(signature)]]
                     /\ store' = isPaidStore(store, h.ref, now)
                     /\ UNCHANGED marks
             ELSE /\ req' = [req EXCEPT ![i] =
                       [r0 EXCEPT !.pc = "sim", !.steps = <<"cacheMiss">>,
                                  !.cache = <<"isPaid">>]]
                  /\ store' = isPaidStore(store, h.ref, now)
                  /\ UNCHANGED marks
  /\ UNCHANGED <<now, paid, ret, cfg, issued, chain, inp, out>>

\* verifySignedTransaction returns; on success sendTransaction is issued.
\* A transaction the ledger has processed simulates as AlreadyProcessed.
SimReturns(i) ==
  /\ req[i].pc = "sim"
  /\ LET rq == RequirementOf(req[i])
         sim == IF req[i].hdr.tx \in LandedTxs THEN AlreadyProcessedSim
                ELSE Tx(req[i].hdr.tx).sim
         supply == SupplyOf(req[i].hdr.tx, rq.mint)
         verificationResult ==
           verifySignedTransaction(Tx(req[i].hdr.tx).blob, sim, rq, supply)
     IN req' = [req EXCEPT ![i] =
          [@ EXCEPT !.pc = afterVerify(verificationResult),
                    !.steps = @ \o <<IF verificationResult.valid
                                     THEN "validated" ELSE "invalid">>,
                    !.calls = @ \o verificationResult.calls,
                    !.simErr = IF "simulateTransaction"
                                    \notin Range(verificationResult.calls)
                               THEN "none"
                               ELSE IF sim.kind = "throws" THEN "throws"
                               ELSE sim.err,
                    !.threw = @ \o
                      (IF sim.kind = "throws" THEN <<"simulateTransaction">>
                       ELSE IF /\ "getTokenSupply" \in
                                    Range(verificationResult.calls)
                               /\ supply.kind = "throws"
                       THEN <<"getTokenSupply">> ELSE <<>>)]]
  /\ UNCHANGED <<now, store, paid, ret, cfg, issued, chain, marks, inp, out>>

\* rpc.sendTransaction answers: the ledger has taken the transaction, unless
\* it had processed it already, when the call throws
SendReturns(i) ==
  /\ req[i].pc = "send"
  /\ LET response == IF req[i].hdr.tx \in LandedTxs
                     THEN [shape |-> "throws", value |-> ""]
                     ELSE Tx(req[i].hdr.tx).ack
         signature == extractSignature(response)
         taken == response.shape # "throws"
         ok == taken /\ signature # NoVal /\ signature # ""
     IN /\ chain' = IF taken /\ req[i].hdr.tx \notin ChainTxs
                    THEN Append(chain, [tx |-> req[i].hdr.tx, by |-> i,
                                        landed |-> FALSE])
                    ELSE chain
        /\ req' = [req EXCEPT ![i] =
             [@ EXCEPT !.pc = IF ok THEN "poll" ELSE "reject",
                       !.steps = @ \o <<IF ok THEN "broadcast"
                                        ELSE "sendFailed">>,
                       !.sig = IF ok THEN signature ELSE "",
                       !.calls = @ \o <<"sendTransaction">>,
                       !.threw = @ \o (IF taken THEN <<>>
                                       ELSE <<"sendTransaction">>)]]
  /\ UNCHANGED <<now, store, paid, ret, cfg, issued, marks, inp, out>>

\* the polling loop of sendSignedTransaction ends; on success
\* verifyTransactionConfirmed is issued. The ledger has processed the
\* transaction once a poll reports a status for it.
PollReturns(i) ==
  /\ req[i].pc = "poll"
  /\ LET poll == Tx(req[i].hdr.tx).poll
         sendResult == pollLoop(req[i].sig, poll, 0)
     IN /\ req' = [req EXCEPT ![i] =
             [@ EXCEPT !.pc = afterSend(sendResult),
                       !.steps = @ \o <<IF sendResult.success THEN "sent"
                                        ELSE "sendFailed">>,
                       !.sig = sendResult.signature,
                       !.calls = @ \o <<"getSignatureStatuses">>,
                       !.threw = @ \o
                         (IF poll.at < maxAttempts /\ poll.status = "throws"
                          THEN <<"getSignatureStatuses">> ELSE <<>>)]]
        /\ chain' = [k \in DOMAIN chain |->
                       IF chain[k].tx = req[i].hdr.tx /\ poll.at < maxAttempts
                       THEN [chain[k] EXCEPT !.landed = TRUE]
                       ELSE chain[k]]
  /\ UNCHANGED <<now, store, paid, ret, cfg, issued, marks, inp, out>>

\* whether the polls for a transaction run out without a status
TimedOut(t) == ~(Tx(t).poll.at < maxAttempts)

\* the ledger processes a broadcast transaction only after the polling loop
\* for it has given up
LedgerLands ==
  /\ cfg.mode = "settle"
  /\ \E k \in DOMAIN chain :
       /\ ~chain[k].landed
       /\ TimedOut(chain[k].tx)
       /\ \A i \in Reqs : req[i].hdr.tx = chain[k].tx => req[i].pc # "poll"
       /\ chain' = [chain EXCEPT ![k].landed = TRUE]
  /\ UNCHANGED <<now, store, paid, ret, cfg, req, issued, marks, inp, out>>

\* verifyTransactionConfirmed returns; on true markPaid, the success header
\* and next() follow without a further await
ConfirmReturns(i) ==
  /\ req[i].pc = "confirm"
  /\ LET rq == RequirementOf(req[i])
         tx == Tx(req[i].hdr.tx).rec
         supply == SupplyOf(req[i].hdr.tx, rq.mint)
         isConfirmed == verifyTransactionConfirmed(tx, rq, supply)
         calls == IF tx.fetch = "ok" /\ ~tx.err
                     /\ decimalsFromBalances(rq.mint, tx.post \o tx.pre) = <<>>
                  THEN <<"getTransaction", "getTokenSupply">>
                  ELSE <<"getTransaction">>
         thrown == IF tx.fetch = "throws" THEN <<"getTransaction">>
                   ELSE IF "getTokenSupply" \in Range(calls)
                           /\ supply.kind = "throws"
                   THEN <<"getTokenSupply">> ELSE <<>>
     IN IF afterConfirm(isConfirmed) = "markPaid"
        THEN /\ store' = markPaid(store, req[i].hdr.ref, req[i].sig, now)
             /\ marks' = marks \cup {[mode |-> "settle", ref |-> req[i].hdr.ref,
                                      sig |-> req[i].sig, by |-> i,
                                      at |-> now]}
             /\ req' = [req EXCEPT ![i] =
                  [@ EXCEPT !.pc = "done",
                            !.steps = @ \o <<IF isConfirmed THEN "confirmed"
                                             ELSE "unconfirmed", "markPaid">>,
                            !.calls = @ \o calls,
                            !.threw = @ \o thrown,
                            !.cache = @ \o <<"markPaid">>,
                            !.outcome = "proceed", !.nexts = @ + 1,
                            !.resp.header = encodeResponse(req[i].sig)]]
        ELSE /\ req' = [req EXCEPT ![i] =
                  [@ EXCEPT !.pc = "reject",
                            !.steps = @ \o <<IF isConfirmed THEN "confirmed"
                                             ELSE "unconfirmed">>,
                            !.calls = @ \o calls,
                            !.threw = @ \o thrown]]
             /\ UNCHANGED <<store, marks>>
  /\ UNCHANGED <<now, paid, ret, cfg, issued, chain, inp, out>>

\* sendPaymentRequiredResponse: new references, status 402, the JSON body
SendPaymentRequired(i) ==
  /\ req[i].pc = "reject"
  /\ req[i].mode = "settle"
  /\ Generated + Len(cfg.prices) <= Len(GenRefs)
  /\ LET references == NewReferences(Len(cfg.prices))
     IN /\ issued' = issued \o references
        /\ req' = [req EXCEPT ![i] =
             [@ EXCEPT !.pc = "done",
                       !.outcome = "reject", !.sends = @ + 1,
                       !.resp = rejectResponse(req[i],
                                  paymentRequiredBody(cfg.prices, references))]]
  /\ UNCHANGED <<now, store, paid, ret, cfg, chain, marks, inp, out>>

----------------------------------------------------------------------------
(* One pass of the handler over drawn payloads and configured prices       *)

\* the transactions a payload carries here: transfers of 0.05 USDC, of
\* 0.049999 USDC, of 0.05 and of 1 of the other mint, and one that names no
\* reference
MatchTxs == {"t1", "tlow", "tmint", "tpb", "tu"}

\* options.paymentRequirements as configured
MatchConfigs ==
  {<<PriceA>>, <<PriceB>>, <<PriceA, PriceB>>, <<PriceB, PriceA>>}

InitMatch ==
  /\ now = 1
  /\ store = NoFn
  /\ paid = NoFn
  /\ ret = [op |-> "init"]
  /\ cfg = [mode |-> "settle", prices |-> <<>>]
  /\ req = NoFn
  /\ issued = <<>>
  /\ chain = <<>>
  /\ marks = {}
  /\ inp \in [payload : [kind : {"payload"}, network : Networks,
                         tx : MatchTxs, ref : ClientRefs],
              configs : MatchConfigs]
  /\ out = [done |-> FALSE]

\* the 402 body the configuration advertises, the requirement the handler
\* picks for the payload, and whether validation, submission and
\* confirmation against it all succeed
ApplyMatch ==
  /\ ~out.done
  /\ LET match == findMatchingPaymentRequirement(inp.payload, inp.configs,
                                                 Network)
         t == Tx(inp.payload.tx)
         advertised == paymentRequiredBody(inp.configs,
                                           NewReferences(Len(inp.configs)))
     IN out' =
          IF match = <<>>
          THEN [done |-> TRUE, advertised |-> advertised,
                requirement |-> <<>>, proceed |-> FALSE]
          ELSE LET supply == SupplyOf(inp.payload.tx, match[1].mint)
                   verificationResult ==
                     verifySignedTransaction(t.blob, t.sim, match[1], supply)
                   sendResult == sendSignedTransaction(t.ack, t.poll)
                   isConfirmed ==
                     verifyTransactionConfirmed(t.rec, match[1], supply)
               IN [done |-> TRUE, advertised |-> advertised,
                   requirement |-> match,
                   proceed |-> /\ afterVerify(verificationResult) = "send"
                               /\ afterSend(sendResult) = "confirm"
                               /\ afterConfirm(isConfirmed) = "markPaid"]
  /\ UNCHANGED <<now, store, paid, ret, cfg, req, issued, chain, marks, inp>>

NextMatch == ApplyMatch

SpecMatch == InitMatch /\ [][NextMatch]_vars

----------------------------------------------------------------------------
(* PaymentVerifier (src/src/paymentVerifier.ts)                            *)

\* getSignaturesForAddress(reference, {limit: 5})
SigLimit == 5

\* the transactions a client broadcasts itself before asking for the resource
ClientTxs == {"t1", "tg", "tb", "tu", "terr", "tto", "tlow", "tfetchx"}
\* how many of them it broadcasts
MaxClientTx == 2

RECURSIVE Reverse(_)
Reverse(q) == IF q = <<>> THEN <<>> ELSE Append(Reverse(Tail(q)), Head(q))

Take(q, n) == SubSeq(q, 1, IF Len(q) < n THEN Len(q) ELSE n)

\* the recorded transactions that name the address, most recent first
getSignaturesForAddress(reference, limit) ==
  Take(Reverse(SelectSeq(chain,
         LAMBDA e : /\ e.landed
                    /\ referenceInAccountKeys(Tx(e.tx).rec.accountKeys,
                                              reference))),
       limit)

\* (pre, post) raw balances of a 6-decimals mint whose difference in doubles,
\* -parseFloat(pre) + parseFloat(post), lies just below the exact difference
FloatDiffBelow ==
  {<<248, 249>>, <<49999, 150000>>, <<50000, 150000>>, <<100000, 150000>>}

\* parseFloat(uiAmountString) of a raw amount, in half raw units
uiAmount(raw) == 2 * raw

\* current + amount in doubles, in half raw units: an odd value lies just
\* below the raw amount above it
floatAdd(current, amount) ==
  CHOOSE r \in {IF /\ c <= 0
                   /\ c % 2 = 0
                   /\ <<(0 - c) \div 2, amount>> \in FloatDiffBelow
                THEN c + uiAmount(amount) - 1
                ELSE c + uiAmount(amount) : c \in {current}} : TRUE

RECURSIVE preLoopFloat(_, _, _, _)
preLoopFloat(m, preBalances, k, mint) ==
  IF k > Len(preBalances) THEN m
  ELSE LET bal == preBalances[k]
       IN IF bal.mint = mint /\ bal.owner # ""
          THEN preLoopFloat(MapSet(m, <<bal.owner, mint>>,
                                   0 - uiAmount(bal.amount)),
                            preBalances, k + 1, mint)
          ELSE preLoopFloat(m, preBalances, k + 1, mint)

RECURSIVE postLoopFloat(_, _, _, _)
postLoopFloat(m, postBalances, k, mint) ==
  IF k > Len(postBalances) THEN m
  ELSE LET bal == postBalances[k]
       IN IF bal.mint = mint /\ bal.owner # ""
          THEN postLoopFloat(MapSet(m, <<bal.owner, mint>>,
                                    floatAdd(MapGet(m, <<bal.owner, mint>>),
                                             bal.amount)),
                             postBalances, k + 1, mint)
          ELSE postLoopFloat(m, postBalances, k + 1, mint)

\* opts.amount, the configured price as a number, in half raw units of a
\* 6-decimals mint
priceAmount(amount) == uiAmount((amount.m * Pow10(6)) \div Pow10(amount.k))

\* one pass of the loop body over a fetched transaction
qualifies(tx, opts) ==
  LET balanceChanges ==
        postLoopFloat(preLoopFloat(NoFn, tx.pre, 1, opts.mint),
                      tx.post, 1, opts.mint)
      merchantReceived == MapGet(balanceChanges, <<opts.recipient, opts.mint>>)
      referenceInvolved == referenceInAccountKeys(tx.accountKeys, opts.reference)
  IN \/ merchantReceived >= priceAmount(opts.amount) /\ referenceInvolved
     \/ \E k \in DOMAIN tx.inner :
          /\ tx.inner[k].parsed
          /\ tx.inner[k].type = "transfer"
          /\ tx.inner[k].mint = opts.mint
          /\ tx.inner[k].destination = opts.recipient
          /\ uiAmount(tx.inner[k].amount) >= priceAmount(opts.amount)
          /\ referenceInvolved

\* the Confirmer and the loop body of verifyPaymentByReference applied to the
\* same fetched transaction and requirement
ApplyBoth ==
  /\ ~out.done
  /\ out' = [done |-> TRUE,
             confirmer |-> verifyTransactionConfirmed(
                             inp.tx, inp.requirement,
                             TokenSupply(inp.requirement.mint)),
             verifier |-> /\ inp.tx.fetch = "ok"
                          /\ ~inp.tx.err
                          /\ qualifies(inp.tx,
                                [reference |-> inp.requirement.reference,
                                 mint |-> inp.requirement.mint,
                                 recipient |-> inp.requirement.recipient,
                                 amount |-> DecimalOf(inp.requirement.amount)])]
  /\ UNCHANGED <<now, store, paid, ret, cfg, req, issued, chain, marks, inp>>

NextBoth == ApplyBoth

SpecBoth == InitConfirm /\ [][NextBoth]_vars

\* mutant of verifyLoop: a missing or failed transaction ends the search
RECURSIVE verifyLoop_stopAtMissing(_, _, _)
verifyLoop_stopAtMissing(sigs, k, opts) ==
  IF k > Len(sigs) THEN FALSE
  ELSE LET tx == Tx(sigs[k].tx).rec
       IN tx.fetch = "ok" /\ ~tx.err
          /\ (qualifies(tx, opts) \/ verifyLoop_stopAtMissing(sigs, k + 1, opts))

\* the loop over the signatures, from the k-th on
RECURSIVE verifyLoop(_, _, _)
verifyLoop(sigs, k, opts) ==
  IF k > Len(sigs) THEN FALSE
  ELSE LET tx == Tx(sigs[k].tx).rec
       IN IF tx.fetch = "throws" THEN FALSE
          ELSE IF tx.fetch # "ok" \/ tx.err THEN verifyLoop(sigs, k + 1, opts)
          ELSE IF qualifies(tx, opts) THEN TRUE
          ELSE verifyLoop(sigs, k + 1, opts)

\* whether the loop was left through the catch: a getTransaction that threw
\* before any transaction qualified
RECURSIVE verifyLoopThrew(_, _, _)
verifyLoopThrew(sigs, k, opts) ==
  IF k > Len(sigs) THEN FALSE
  ELSE LET tx == Tx(sigs[k].tx).rec
       IN IF tx.fetch = "throws" THEN TRUE
          ELSE IF tx.fetch # "ok" \/ tx.err THEN verifyLoopThrew(sigs, k + 1, opts)
          ELSE IF qualifies(tx, opts) THEN FALSE
          ELSE verifyLoopThrew(sigs, k + 1, opts)

\* mutant of verifyPaymentByReference: it answers true without looking
verifyPaymentByReference_always(opts) == TRUE

verifyPaymentByReference(opts) ==
  LET sigs == getSignaturesForAddress(opts.reference, SigLimit)
  IN IF Len(sigs) = 0 THEN FALSE ELSE verifyLoop(sigs, 1, opts)

\* the transactions the loop fetches with getTransaction, in order, from the
\* k-th signature on
RECURSIVE verifyLoopFetched(_, _, _)
verifyLoopFetched(sigs, k, opts) ==
  IF k > Len(sigs) THEN <<>>
  ELSE LET tx == Tx(sigs[k].tx).rec
       IN IF tx.fetch = "throws" THEN <<sigs[k].tx>>
          ELSE IF tx.fetch # "ok" \/ tx.err
          THEN <<sigs[k].tx>> \o verifyLoopFetched(sigs, k + 1, opts)
          ELSE IF qualifies(tx, opts) THEN <<sigs[k].tx>>
          ELSE <<sigs[k].tx>> \o verifyLoopFetched(sigs, k + 1, opts)

----------------------------------------------------------------------------
(* verifyPaymentByReference applied to drawn histories of a reference      *)

\* how many transactions a drawn history holds
MaxHistory == 6

\* the recorded transactions a history is drawn from: six that name r1 (one
\* qualifying, one failed, one missing, two short, one in another mint, one
\* whose getTransaction throws) and one that names no reference
HistoryTxs == {"t1", "terr", "tto", "tlow", "tbhl", "tmint", "tfetchx", "tu"}

\* the ledger holds each transaction once
Histories ==
  {h \in SeqsUpTo(HistoryTxs, MaxHistory) :
     \A a, b \in DOMAIN h : h[a] = h[b] => a = b}

InitLookup ==
  /\ now = 1
  /\ store = NoFn
  /\ paid = NoFn
  /\ ret = [op |-> "init"]
  /\ cfg = [mode |-> "verify", prices |-> <<PriceA>>]
  /\ req = NoFn
  /\ issued = <<>>
  /\ chain \in {[k \in DOMAIN h |->
                   [tx |-> h[k], by |-> "client", landed |-> TRUE]] :
                h \in Histories}
  /\ marks = {}
  /\ inp \in [rpc : {"ok", "throws"},
              opts : {[reference |-> "r1", mint |-> PriceA.mint,
                       recipient |-> PriceA.recipient,
                       amount |-> PriceA.amount]}]
  /\ out = [done |-> FALSE]

\* one call of verifyPaymentByReference: its answer, the ledger calls it
\* made and the transactions it fetched
ApplyLookup ==
  /\ ~out.done
  /\ LET sigs == getSignaturesForAddress(inp.opts.reference, SigLimit)
         fetched == IF inp.rpc = "throws" THEN <<>>
                    ELSE verifyLoopFetched(sigs, 1, inp.opts)
     IN out' = [done |-> TRUE,
                value |-> IF inp.rpc = "throws" THEN FALSE
                          ELSE verifyPaymentByReference(inp.opts),
                fetched |-> fetched,
                calls |-> <<"getSignaturesForAddress">>
                          \o [k \in DOMAIN fetched |-> "getTransaction"]]
  /\ UNCHANGED <<now, store, paid, ret, cfg, req, issued, chain, marks, inp>>

NextLookup == ApplyLookup

SpecLookup == InitLookup /\ [][NextLookup]_vars

----------------------------------------------------------------------------
(* X402Middleware (src/unnamed/part_000)                                   *)

\* the X-Payment-Reference header values a client sends
ReferenceHeaders ==
  {NoHeader}
  \cup [kind : {"reference"}, network : {""}, tx : {""},
        ref : ClientRefs \cup Range(issued)]

\* the body of send402Response: one flattened requirement
paymentRequired402(reference) ==
  <<[scheme |-> "x402",
     network |-> Network,
     mint |-> cfg.prices[1].mint,
     amount |-> NumberToString(cfg.prices[1].amount),
     recipient |-> cfg.prices[1].recipient,
     reference |-> reference,
     expires_in |-> DEFAULT_TTL_SECONDS]>>

\* a client sends one of its transactions to the ledger itself
ClientBroadcast ==
  /\ cfg.mode = "verify"
  /\ Len(chain) < MaxClientTx
  /\ \E t \in ClientTxs \ ChainTxs :
       /\ GenKeysOf(t) \subseteq Range(issued)
       /\ chain' = Append(chain, [tx |-> t, by |-> "client", landed |-> TRUE])
  /\ UNCHANGED <<now, store, paid, ret, cfg, req, issued, marks, inp, out>>

\* the setInterval callback of X402Middleware
SweepTimerV1 ==
  /\ cfg.mode = "verify"
  /\ cleanupV1Count(paid, now) > 0
  /\ paid' = cleanupV1Store(paid, now)
  /\ UNCHANGED <<now, store, ret, cfg, req, issued, chain, marks, inp, out>>

\* the handler up to its first await: header, cache
ReceiveReference(i) ==
  /\ cfg.mode = "verify"
  /\ req[i].pc = "idle"
  /\ \E h \in ReferenceHeaders :
       LET r0 == [req[i] EXCEPT !.mode = "verify", !.hdr = h]
       IN IF h.kind = "none"
          THEN /\ req' = [req EXCEPT ![i] =
                    [r0 EXCEPT !.pc = "reject", !.steps = <<"noHeader">>]]
               /\ UNCHANGED paid
          ELSE IF isPaidV1(paid, h.ref, now)
          THEN /\ req' = [req EXCEPT ![i] =
                    [r0 EXCEPT !.pc = "done", !.steps = <<"cacheHit">>,
                               !.cache = <<"isPaid">>,
                               !.outcome = "proceed", !.nexts = @ + 1]]
               /\ paid' = isPaidV1Store(paid, h.ref, now)
          ELSE /\ req' = [req EXCEPT ![i] =
                    [r0 EXCEPT !.pc = "verify", !.steps = <<"cacheMiss">>,
                               !.cache = <<"isPaid">>]]
               /\ paid' = isPaidV1Store(paid, h.ref, now)
  /\ UNCHANGED <<now, store, ret, cfg, issued, chain, marks, inp, out>>

\* verifier.verifyPayment returns: markPaid and next(), or the 402 that
\* carries the presented reference again; a getSignaturesForAddress that
\* throws is caught in verifyPaymentByReference, which then answers false
VerifyReturns(i) ==
  /\ req[i].pc = "verify"
  /\ \E rpc \in {"ok", "throws"} :
     LET reference == req[i].hdr.ref
         opts == [reference |-> reference,
                  mint |-> cfg.prices[1].mint,
                  recipient |-> cfg.prices[1].recipient,
                  amount |-> cfg.prices[1].amount]
         isPaidNow == IF rpc = "throws" THEN FALSE
                      ELSE verifyPaymentByReference(opts)
         thrown == IF rpc = "throws" THEN <<"getSignaturesForAddress">>
                   ELSE IF verifyLoopThrew(
                             getSignaturesForAddress(reference, SigLimit),
                             1, opts)
                   THEN <<"getTransaction">> ELSE <<>>
     IN IF isPaidNow
        THEN /\ paid' = markPaidV1(paid, reference, now)
             /\ marks' = marks \cup {[mode |-> "verify", ref |-> reference,
                                      sig |-> "", by |-> i, at |-> now]}
             /\ req' = [req EXCEPT ![i] =
                  [@ EXCEPT !.pc = "done",
                            !.steps = @ \o <<"verified", "markPaid">>,
                            !.calls = @ \o <<"getSignaturesForAddress">>,
                            !.cache = @ \o <<"markPaid">>,
                            !.outcome = "proceed", !.nexts = @ + 1]]
             /\ UNCHANGED issued
        ELSE /\ issued' = Append(issued, reference)
             /\ req' = [req EXCEPT ![i] =
                  [@ EXCEPT !.pc = "done",
                            !.steps = @ \o <<"unverified">>,
                            !.calls = @ \o <<"getSignaturesForAddress">>,
                            !.threw = @ \o thrown,
                            !.outcome = "reject", !.sends = @ + 1,
                            !.resp = rejectResponse(req[i],
                                       paymentRequired402(reference))]]
             /\ UNCHANGED <<paid, marks>>
  /\ UNCHANGED <<now, store, ret, cfg, chain, inp, out>>

\* send402Response without an existing reference: a new one is generated
Send402Response(i) ==
  /\ req[i].pc = "reject"
  /\ req[i].mode = "verify"
  /\ Generated + 1 <= Len(GenRefs)
  /\ LET reference == NewReferences(1)[1]
     IN /\ issued' = Append(issued, reference)
        /\ req' = [req EXCEPT ![i] =
             [@ EXCEPT !.pc = "done",
                       !.outcome = "reject", !.sends = @ + 1,
                       !.resp = rejectResponse(req[i],
                                  paymentRequired402(reference))]]
  /\ UNCHANGED <<now, store, paid, ret, cfg, chain, marks, inp, out>>

----------------------------------------------------------------------------
(* Both middlewares under concurrent requests, the clock and the sweeps    *)

Next ==
  \/ Advance
  \/ SweepTimer
  \/ SweepTimerV1
  \/ ClientBroadcast
  \/ LedgerLands
  \/ \E i \in Reqs : Receive(i)
  \/ \E i \in Reqs : SimReturns(i)
  \/ \E i \in Reqs : SendReturns(i)
  \/ \E i \in Reqs : PollReturns(i)
  \/ \E i \in Reqs : ConfirmReturns(i)
  \/ \E i \in Reqs : SendPaymentRequired(i)
  \/ \E i \in Reqs : ReceiveReference(i)
  \/ \E i \in Reqs : VerifyReturns(i)
  \/ \E i \in Reqs : Send402Response(i)

Spec == InitEngine /\ [][Next]_vars

\* the continuations of one request: each awaited ledger call returns or
\* throws, and the handler resumes
Resume(i) ==
  \/ SimReturns(i)
  \/ SendReturns(i)
  \/ PollReturns(i)
  \/ ConfirmReturns(i)
  \/ SendPaymentRequired(i)
  \/ VerifyReturns(i)
  \/ Send402Response(i)

\* one request, the clock, the sweeps and the clients' own broadcasts
NextLive ==
  \/ Advance
  \/ SweepTimer
  \/ SweepTimerV1
  \/ ClientBroadcast
  \/ LedgerLands
  \/ Receive("a")
  \/ ReceiveReference("a")
  \/ Resume("a")

\* the same machine for one request when every awaited call eventually
\* completes
SpecLive ==
  /\ InitEngine
  /\ [][NextLive]_vars
  /\ WF_vars(Resume("a"))

----------------------------------------------------------------------------
(* The middlewares some time after start-up: earlier requests have paid    *)
(* for references and have been answered.                                  *)

\* the references earlier requests paid for, and the transaction of each
WarmRefs == {"r1", "r2"}
WarmTx(reference) == IF reference = "r1" THEN "t1" ELSE "t2"

\* the state earlier settlements of the references in S, made at the times
\* t0, have left behind
InitWarm ==
  /\ now \in 1..MaxNow
  /\ cfg \in Configs
  /\ ret = [op |-> "init"]
  /\ req = [i \in Reqs |-> NewReq]
  /\ issued = <<>>
  /\ inp = NoVal
  /\ out = [done |-> FALSE]
  /\ \E S \in SUBSET WarmRefs : \E t0 \in [S -> 1..MaxNow] :
       LET first == IF "r1" \in S
                    THEN markPaid(NoFn, "r1", Tx(WarmTx("r1")).sig, t0["r1"])
                    ELSE NoFn
           both == IF "r2" \in S
                   THEN markPaid(first, "r2", Tx(WarmTx("r2")).sig, t0["r2"])
                   ELSE first
           settle == cfg.mode = "settle"
           refs == SelectSeq(<<"r1", "r2">>, LAMBDA x : x \in S)
       IN /\ \A x \in S : t0[x] <= now
          /\ S # {} => Len(cfg.prices) > 0
          /\ ~settle => S \subseteq {"r1"}
          /\ store = IF settle THEN both ELSE NoFn
          /\ paid = IF settle \/ S = {} THEN NoFn
                    ELSE markPaidV1(NoFn, "r1", t0["r1"])
          /\ marks = {[mode |-> cfg.mode, ref |-> x,
                       sig |-> IF settle THEN Tx(WarmTx(x)).sig ELSE "",
                       by |-> "earlier", at |-> t0[x]] : x \in S}
          /\ chain = [k \in DOMAIN refs |->
                        [tx |-> WarmTx(refs[k]),
                         by |-> IF settle THEN "earlier" ELSE "client",
                         landed |-> TRUE]]

\* one further request against that state
SpecWarm == InitWarm /\ [][NextLive]_vars

----------------------------------------------------------------------------
(* Requests that present a reference the settlement cache holds            *)

InitHit == InitWarm /\ cfg.mode = "settle"

\* a request whose payload names the configured network and a reference
\* isPaid answers true for
ReceiveCached(i) ==
  /\ Receive(i)
  /\ req'[i].hdr.kind = "payload"
  /\ req'[i].hdr.network = Network
  /\ isPaid(store, req'[i].hdr.ref, now)

NextHit ==
  \/ Advance
  \/ SweepTimer
  \/ \E i \in Reqs : ReceiveCached(i)

SpecHit == InitHit /\ [][NextHit]_vars

----------------------------------------------------------------------------
(* Properties of the two middlewares                                       *)

\* the steps of a Submit-and-Settle pass that settles
SettledSteps ==
  <<"cacheMiss", "validated", "broadcast", "sent", "confirmed", "markPaid">>

\* the ledger calls of a pass, getTokenSupply lookups left out
LedgerCalls(r) == SelectSeq(r.calls, LAMBDA c : c # "getTokenSupply")

(* C2: in Submit-and-Settle mode next() is invoked for a request only if,   *)
(* in that pass, isPaid(reference) returned true (and nothing was asked of  *)
(* the ledger), or validation, submission and confirmation succeeded in     *)
(* that order on the request's transaction; a request without an X-PAYMENT  *)
(* header, or one that failed at a step, never reaches the handler.         *)
C2_ProceedOnlyAfterSettlement ==
  \A i \in Reqs :
    (req[i].mode = "settle" /\ req[i].outcome = "proceed") =>
      /\ req[i].hdr.kind = "payload"
      /\ \/ /\ req[i].steps = <<"cacheHit">>
            /\ req[i].calls = <<>>
            /\ \E m \in marks : m.ref = req[i].hdr.ref
         \/ /\ req[i].steps = SettledSteps
            /\ LedgerCalls(req[i]) =
                 <<"simulateTransaction", "sendTransaction",
                   "getSignatureStatuses", "getTransaction">>
            /\ req[i].hdr.tx \in LandedTxs
            /\ Tx(req[i].hdr.tx).poll.status \in {"confirmed", "finalized"}
            /\ Tx(req[i].hdr.tx).sim.err \in {""} \cup BlockhashClass

C2_Witness ==
  /\ req["a"].mode = "settle" /\ req["a"].outcome = "proceed"
  /\ req["a"].steps = SettledSteps
  /\ req["b"].mode = "settle" /\ req["b"].outcome = "proceed"
  /\ req["b"].steps = <<"cacheHit">>
  /\ req["a"].hdr.ref = req["b"].hdr.ref

(* C3 as stated: every markPaid is preceded in the same pass by a           *)
(* successful broadcast that returned the signature and by the Confirmer    *)
(* returning true for that signature and reference, in either middleware.   *)
C3_EveryMarkAfterBroadcast ==
  \A m \in marks :
    /\ req[m.by].steps = SettledSteps
    /\ m.sig = Tx(req[m.by].hdr.tx).sig
    /\ m.ref = req[m.by].hdr.ref

(* C3: in Submit-and-Settle mode each markPaid(ref, sig) is preceded in the *)
(* same pass by a successful broadcast that returned sig and by the         *)
(* Confirmer returning true for the requirement with reference ref; in      *)
(* Verify-Only mode each markPaid(ref) is preceded in the same pass by      *)
(* verifyPayment returning true for ref, with no broadcast; no other path   *)
(* inserts an entry into either cache.                                      *)
C3_MarkPaidOnlyAfterSettlement ==
  /\ \A m \in marks :
       LET r == req[m.by]
       IN /\ m.ref = r.hdr.ref
          /\ m.mode = r.mode
          /\ m.mode = "settle" =>
               /\ r.steps = SettledSteps
               /\ m.sig = Tx(r.hdr.tx).sig
               /\ m.sig # ""
               /\ \E k \in DOMAIN chain : chain[k].tx = r.hdr.tx /\ chain[k].landed
               /\ Tx(r.hdr.tx).rec.fetch = "ok"
               /\ ~Tx(r.hdr.tx).rec.err
               /\ referenceInAccountKeys(Tx(r.hdr.tx).rec.accountKeys, m.ref)
               /\ NetReceived(Tx(r.hdr.tx).rec, Merchant, USDC) >=
                    ExactRequiredRaw(NumberToString(PriceA.amount), 6)
          /\ m.mode = "verify" =>
               /\ r.steps = <<"cacheMiss", "verified", "markPaid">>
               /\ r.calls = <<"getSignaturesForAddress">>
               /\ \E k \in DOMAIN chain :
                    /\ chain[k].by = "client"
                    /\ referenceInAccountKeys(Tx(chain[k].tx).rec.accountKeys,
                                              m.ref)
  /\ \A ref \in DOMAIN store :
       \E m \in marks :
         m.mode = "settle" /\ m.ref = ref /\ m.sig = store[ref].signature
  /\ \A ref \in DOMAIN paid :
       \E m \in marks : m.mode = "verify" /\ m.ref = ref

C3_Witness ==
  \E m \in marks :
    /\ m.mode = "settle"
    /\ m.ref \in DOMAIN store
    /\ store[m.ref].signature = m.sig
    /\ m.sig = "s1"
    /\ req[m.by].steps = SettledSteps

(* C4: a transaction that moves at least the required amount of the mint to *)
(* the recipient but does not name the request's reference is not confirmed *)
(* for it: a request that did not hit the cache and handed in such a        *)
(* transaction never proceeds, ends with the 402 response, and marks        *)
(* nothing paid.                                                            *)
C4_ReferenceBindingNecessary ==
  \A i \in Reqs :
    (/\ req[i].mode = "settle"
     /\ req[i].hdr.kind = "payload"
     /\ req[i].steps # <<>>
     /\ Head(req[i].steps) = "cacheMiss"
     /\ NetReceived(Tx(req[i].hdr.tx).rec, Merchant, USDC) >=
                    ExactRequiredRaw(NumberToString(PriceA.amount), 6)
     /\ ~referenceInAccountKeys(Tx(req[i].hdr.tx).rec.accountKeys,
                                req[i].hdr.ref)) =>
      /\ req[i].outcome # "proceed"
      /\ "confirmed" \notin Range(req[i].steps)
      /\ \A m \in marks : m.by # i
      /\ req[i].pc = "done" => req[i].outcome = "reject" /\ req[i].resp.status = 402

C4_Witness ==
  \E i \in Reqs :
    /\ req[i].hdr.tx = "tu"
    /\ req[i].steps =
         <<"cacheMiss", "validated", "broadcast", "sent", "unconfirmed">>
    /\ req[i].pc = "done"
    /\ req[i].resp.status = 402
    /\ req[i].hdr.ref \notin DOMAIN store


(* C6: a payload is accepted only if its network and its reference match   *)
(* an outstanding requirement: a Submit-and-Settle request whose payload    *)
(* names a reference that no 402 response of this engine carried is         *)
(* rejected and never proceeds.                                             *)
C6_OnlyIssuedReferencesAccepted ==
  \A i \in Reqs :
    (/\ req[i].mode = "settle"
     /\ req[i].hdr.kind = "payload"
     /\ req[i].hdr.ref \notin Range(issued)) =>
      /\ req[i].outcome # "proceed"
      /\ \A m \in marks : m.by # i

(* C7: in both modes each 402 response carries a newly generated reference  *)
(* that no earlier 402 response carried, the 402 sent after a failed        *)
(* verification of a presented reference included.                          *)
C7_EveryRejectFreshReference ==
  /\ \A j \in DOMAIN issued : \A k \in DOMAIN issued :
       j # k => issued[j] # issued[k]
  /\ \A k \in DOMAIN issued : issued[k] \in Range(GenRefs)
  /\ \A i \in Reqs :
       req[i].outcome = "reject" =>
         /\ req[i].resp.status = 402
         /\ \A k \in DOMAIN req[i].resp.body :
              req[i].resp.body[k].reference \in Range(issued)

(* C8 as stated: a request without a proof header is answered 402 with      *)
(* exactly one payment requirement under every configuration, its fields    *)
(* equal to the configured pricing, with no ledger call and no cache write. *)
C8_ExactlyOneRequirement ==
  \A i \in Reqs :
    (req[i].mode # "" /\ req[i].hdr.kind = "none" /\ req[i].pc = "done") =>
      /\ req[i].resp.status = 402
      /\ Len(req[i].resp.body) = 1
      /\ Len(cfg.prices) >= 1
      /\ req[i].resp.body[1].network = Network
      /\ req[i].resp.body[1].mint = cfg.prices[1].mint
      /\ req[i].resp.body[1].amount = NumberToString(cfg.prices[1].amount)
      /\ req[i].resp.body[1].recipient = cfg.prices[1].recipient
      /\ req[i].calls = <<>>
      /\ req[i].cache = <<>>

(* C8: a request without a proof header is answered 402 with one payment    *)
(* requirement per configured price, in the configured order (exactly one   *)
(* when one price is configured); each requirement's network, mint, amount  *)
(* and recipient equal that price's, and the pass makes no ledger call and  *)
(* no cache call.                                                           *)
C8_OneRequirementPerPrice ==
  \A i \in Reqs :
    (req[i].mode # "" /\ req[i].hdr.kind = "none") =>
      /\ req[i].calls = <<>>
      /\ req[i].cache = <<>>
      /\ \A m \in marks : m.by # i
      /\ req[i].outcome # "proceed"
      /\ req[i].pc = "done" =>
           /\ req[i].resp.status = 402
           /\ Len(req[i].resp.body) = Len(cfg.prices)
           /\ \A k \in DOMAIN req[i].resp.body :
                /\ req[i].resp.body[k].network = Network
                /\ req[i].resp.body[k].mint = cfg.prices[k].mint
                /\ req[i].resp.body[k].amount =
                     NumberToString(cfg.prices[k].amount)
                /\ req[i].resp.body[k].recipient = cfg.prices[k].recipient

C8_Witness ==
  \E i \in Reqs :
    /\ req[i].mode = "settle"
    /\ req[i].hdr.kind = "none"
    /\ req[i].pc = "done"
    /\ Len(cfg.prices) = 2
    /\ Len(req[i].resp.body) = 2
    /\ req[i].resp.body[2].mint = OtherMint

(* C9: two Submit-and-Settle requests with distinct references and distinct *)
(* transactions resolve independently under every interleaving: each ends   *)
(* as it would alone (proceed exactly when its own transaction validates,   *)
(* is broadcast, is confirmed and names its own reference), and a cache     *)
(* entry for a reference comes only from the request that carries it.       *)
C9_DistinctRequestsIndependent ==
  LET alone(h) ==
        IF findMatchingPaymentRequirement(h, cfg.prices, Network) = <<>>
        THEN "reject"
        ELSE LET t == Tx(h.tx)
             IN IF /\ t.blob.len >= MinTxLen /\ t.blob.nsig > 0
                   /\ t.sim.kind = "ok" /\ ~t.sim.sigFailLog
                   /\ t.sim.err \in {""} \cup BlockhashClass
                   /\ NetReceived(t.sim, Merchant, USDC) >=
                        ExactRequiredRaw(NumberToString(PriceA.amount), 6)
                   /\ t.ack.shape = "string"
                   /\ t.poll.at < maxAttempts
                   /\ t.poll.status \in {"confirmed", "finalized"}
                   /\ t.rec.fetch = "ok" /\ ~t.rec.err
                   /\ NetReceived(t.rec, Merchant, USDC) >=
                        ExactRequiredRaw(NumberToString(PriceA.amount), 6)
                   /\ referenceInAccountKeys(t.rec.accountKeys, h.ref)
                THEN "proceed" ELSE "reject"
  IN (/\ req["a"].mode = "settle" /\ req["b"].mode = "settle"
      /\ req["a"].hdr.kind = "payload" /\ req["b"].hdr.kind = "payload"
      /\ req["a"].hdr.ref # req["b"].hdr.ref
      /\ req["a"].hdr.tx # req["b"].hdr.tx) =>
       \A i \in Reqs :
         /\ req[i].outcome # "" => req[i].outcome = alone(req[i].hdr)
         /\ \A m \in marks : m.by = i => m.ref = req[i].hdr.ref
         /\ req[i].hdr.ref \in DOMAIN store =>
              /\ alone(req[i].hdr) = "proceed"
              /\ store[req[i].hdr.ref].signature = Tx(req[i].hdr.tx).sig
              /\ \E m \in marks : m.by = i
         /\ DOMAIN store \subseteq {req["a"].hdr.ref, req["b"].hdr.ref}

C9_Witness ==
  /\ req["a"].hdr.tx = "t1" /\ req["a"].hdr.ref = "r1"
  /\ req["b"].hdr.tx = "tu" /\ req["b"].hdr.ref = "r2"
  /\ req["a"].hdr.network = Network /\ req["b"].hdr.network = Network
  /\ req["a"].outcome = "proceed"
  /\ req["b"].pc = "done" /\ req["b"].outcome = "reject"
  /\ "broadcast" \in Range(req["b"].steps)
  /\ \E k \in DOMAIN chain : chain[k].tx = "tu" /\ k = 1

C14_SweepLosesNoUpdate ==
  [][/\ \A m \in marks' :
          (m.mode = "settle" /\ now' <= m.at + TtlMs) =>
            /\ m.ref \in DOMAIN store'
            /\ isPaid(store', m.ref, now')
     /\ \A m \in marks' :
          (m.mode = "verify" /\ now' <= m.at + TtlMs) =>
            /\ m.ref \in DOMAIN paid'
            /\ isPaidV1(paid', m.ref, now')
     /\ SweepTimer =>
          /\ DOMAIN store' \subseteq DOMAIN store
          /\ \A x \in DOMAIN store' : store'[x] = store[x]
          /\ \A x \in DOMAIN store \ DOMAIN store' : now > store[x].expiry
     /\ SweepTimerV1 =>
          /\ DOMAIN paid' \subseteq DOMAIN paid
          /\ \A x \in DOMAIN paid' : paid'[x] = paid[x]
          /\ \A x \in DOMAIN paid \ DOMAIN paid' : now > paid[x]]_vars

\* the sweep has deleted one request's expired entry while the other
\* request's later entry is still paid
C14_Witness ==
  \E m1 \in marks : \E m2 \in marks :
    /\ m1.mode = "settle" /\ m2.mode = "settle"
    /\ m1.by # m2.by
    /\ m1.ref \notin DOMAIN store
    /\ now > m1.at + TtlMs
    /\ m2.ref \in DOMAIN store
    /\ now <= m2.at + TtlMs
    /\ isPaid(store, m2.ref, now)

\* how often a ledger call occurs among the calls of a pass
CallCount(r, c) == Len(SelectSeq(r.calls, LAMBDA x : x = c))

(* C15: each request makes one pass and has at most one terminal outcome:   *)
(* it never both calls next() and sends a 402, never sends two responses,   *)
(* runs validation, broadcast and confirmation at most once each, and once  *)
(* it has ended nothing more happens to it. Both middlewares.               *)
C15_OnePassOneOutcome ==
  [][\A i \in Reqs :
       /\ req'[i].nexts + req'[i].sends <= 1
       /\ (req'[i].pc = "done") <=> (req'[i].nexts + req'[i].sends = 1)
       /\ req'[i].nexts = 1 =>
            req'[i].outcome = "proceed" /\ req'[i].resp.status = 0
       /\ req'[i].sends = 1 =>
            /\ req'[i].outcome = "reject"
            /\ req'[i].resp.status = 402
            /\ req'[i].resp.header.encoding = "none"
       /\ CallCount(req'[i], "simulateTransaction") <= 1
       /\ CallCount(req'[i], "sendTransaction") <= 1
       /\ CallCount(req'[i], "getSignatureStatuses") <= 1
       /\ CallCount(req'[i], "getTransaction") <= 1
       /\ CallCount(req'[i], "getSignaturesForAddress") <= 1
       /\ req[i].pc = "done" => req'[i] = req[i]]_vars

\* one request has settled and called next(), the other has run the whole
\* pass and sent the 402
C15_Witness ==
  /\ req["a"].nexts = 1 /\ req["a"].sends = 0
  /\ req["a"].steps = SettledSteps
  /\ req["b"].sends = 1 /\ req["b"].nexts = 0
  /\ req["b"].steps =
       <<"cacheMiss", "validated", "broadcast", "sent", "unconfirmed">>

(* C16: when every ledger call eventually returns or throws, every request  *)
(* that has been received eventually reaches a terminal state, Proceed or   *)
(* Reject; none stays suspended in validation, polling or confirmation.     *)
C16_EveryRequestTerminates ==
  \A i \in Reqs :
    (req[i].pc \notin {"idle", "done"}) ~>
      (req[i].pc = "done" /\ req[i].outcome \in {"proceed", "reject"})

\* a request whose transaction was never seen by the polling loop has ended
C16_Witness ==
  \E i \in Reqs :
    /\ req[i].hdr.tx = "tto"
    /\ req[i].steps = <<"cacheMiss", "validated", "broadcast", "sendFailed">>
    /\ req[i].pc = "done"
    /\ req[i].outcome = "reject"

(* C17: the response does not depend on the failure class: two requests of  *)
(* one engine that were rejected, for whatever reasons, both get status 402 *)
(* and bodies of the same payment-required shape that differ at most in the *)
(* reference values; nothing else is in the response, so no failure reason  *)
(* is.                                                                      *)
C17_RejectsLookAlike ==
  \A i \in Reqs : \A j \in Reqs :
    (req[i].outcome = "reject" /\ req[j].outcome = "reject") =>
      /\ req[i].resp.status = 402
      /\ DOMAIN req[i].resp = {"status", "body", "header"}
      /\ req[i].resp.header = NoResponse.header
      /\ Len(req[i].resp.body) = Len(req[j].resp.body)
      /\ \A k \in DOMAIN req[i].resp.body :
           /\ [req[i].resp.body[k] EXCEPT !.reference = ""] =
                [req[j].resp.body[k] EXCEPT !.reference = ""]
           /\ DOMAIN req[i].resp.body[k] \subseteq
                {"scheme", "network", "mint", "amount", "recipient",
                 "reference", "expires_in"}

\* a malformed payload and a confirmation timeout, answered alike
C17_Witness ==
  /\ req["a"].outcome = "reject" /\ req["a"].steps = <<"malformed">>
  /\ req["b"].outcome = "reject" /\ req["b"].hdr.tx = "tto"
  /\ req["b"].steps = <<"cacheMiss", "validated", "broadcast", "sendFailed">>
  /\ Len(req["a"].resp.body) = 1
  /\ req["a"].resp.body[1].reference # req["b"].resp.body[1].reference

(***************************************************************************)
(* C18: no error of a ledger call propagates past its owning component.   *)
(* As stated: whenever simulateTransaction, sendTransaction,              *)
(* getSignatureStatuses, getTransaction, getTokenSupply or                *)
(* getSignaturesForAddress throws, the step that saw the throw leaves the  *)
(* caches and the record of payments as they were and sends the request    *)
(* towards its 402, and the request never proceeds.                        *)
(***************************************************************************)
\* the ledger calls whose throw makes the owning component answer "failed"
FailingCalls ==
  {"simulateTransaction", "sendTransaction", "getSignatureStatuses",
   "getTransaction", "getSignaturesForAddress"}

\* the step of request i in which one of the calls in cs threw
ThrowStep(i, cs) ==
  /\ Len(req'[i].threw) > Len(req[i].threw)
  /\ req'[i].threw[Len(req'[i].threw)] \in cs

\* what the step that saw the throw does: caches untouched, towards the 402
FailsClosed(i) ==
  /\ store' = store /\ paid' = paid /\ marks' = marks
  /\ req'[i].pc \in {"reject", "done"}
  /\ req'[i].outcome # "proceed"
  /\ "markPaid" \notin Range(req'[i].cache)

C18_EveryThrowRejects ==
  [][\A i \in Reqs :
       ThrowStep(i, FailingCalls \cup {"getTokenSupply"}) => FailsClosed(i)]_vars

\* C18, restated: a throw of simulateTransaction, sendTransaction,
\* getSignatureStatuses, getTransaction or getSignaturesForAddress makes the
\* step fail closed, and a request that saw one never proceeds and ends with
\* the 402; a throw of getTokenSupply is caught inside getTokenDecimals and
\* replaced by the default of 6 decimals, after which the evaluation goes on.
C18_ThrowsFailClosed ==
  /\ [][\A i \in Reqs : ThrowStep(i, FailingCalls) => FailsClosed(i)]_vars
  /\ [](\A i \in Reqs :
          Range(req[i].threw) \cap FailingCalls # {}
            => /\ req[i].outcome # "proceed"
               /\ \A m \in marks : m.by # i
               /\ req[i].pc = "done"
                    => req[i].outcome = "reject" /\ req[i].resp.status = 402)

\* a request whose getTransaction threw after its broadcast was confirmed has
\* ended with the 402, and nothing is recorded as paid
C18_Witness ==
  \E i \in Reqs :
    /\ req[i].mode = "settle"
    /\ req[i].threw = <<"getTransaction">>
    /\ req[i].steps =
         <<"cacheMiss", "validated", "broadcast", "sent", "unconfirmed">>
    /\ req[i].pc = "done"
    /\ req[i].outcome = "reject"
    /\ marks = {}
    /\ DOMAIN store = {}

(***************************************************************************)
(* C19: a broadcast the ledger accepted whose confirmation polling timed   *)
(* out ends in Reject and leaves no cache entry: the request records no    *)
(* payment, no cache entry carries the signature of the timed-out          *)
(* transaction, and a later request with the same proof proceeds from the  *)
(* cache only if another payment put the reference there; otherwise it     *)
(* misses the cache and starts again with the simulation.                  *)
(***************************************************************************)
C19_TimeoutLeavesNoEntry ==
  \A i \in Reqs :
    (req[i].mode = "settle" /\ req[i].hdr.kind = "payload"
       /\ TimedOut(req[i].hdr.tx))
    => LET r == req[i]
           signature == Tx(r.hdr.tx).ack.value
       IN /\ \A m \in marks : m.by # i /\ m.sig # signature
          /\ \A x \in DOMAIN store : store[x].signature # signature
          /\ "markPaid" \notin Range(r.cache)
          /\ "sendFailed" \in Range(r.steps)
               => r.pc \in {"reject", "done"} /\ r.outcome # "proceed"
          /\ r.pc = "done" /\ "sendFailed" \in Range(r.steps)
               => r.outcome = "reject" /\ r.resp.status = 402
          /\ r.outcome = "proceed"
               => /\ r.steps = <<"cacheHit">>
                  /\ \E m \in marks : m.ref = r.hdr.ref /\ m.by # i
          /\ (r.steps # <<>> /\ r.steps[1] = "cacheMiss" /\ r.pc # "sim")
               => r.calls # <<>> /\ r.calls[1] = "simulateTransaction"

\* request a was rejected after its polls ran out; request b came with the
\* same proof after that, missed the cache, was validated, broadcast again
\* and rejected after its own polls ran out; nothing is cached
C19_Witness ==
  /\ req["a"].hdr.tx = "tto" /\ req["b"].hdr = req["a"].hdr
  /\ req["a"].steps = <<"cacheMiss", "validated", "broadcast", "sendFailed">>
  /\ req["a"].outcome = "reject"
  /\ req["b"].steps = <<"cacheMiss", "validated", "broadcast", "sendFailed">>
  /\ req["b"].calls =
       <<"simulateTransaction", "sendTransaction", "getSignatureStatuses">>
  /\ req["b"].outcome = "reject"
  /\ "tto" \in ChainTxs
  /\ DOMAIN store = {}
  /\ marks = {}

(***************************************************************************)
(* C20: for every decimal-string amount and every decimals value d,        *)
(* calculateRequiredAmountRaw(amount, d) is floor(amount * 10^d) computed  *)
(* exactly over the integers, never one raw unit off.                      *)
(***************************************************************************)
C20_RequiredRawIsExact ==
  out.done => out.value = ExactRequiredRaw(inp.amount, inp.decimals)

(***************************************************************************)
(* C21: for every pair of snapshot lists and mint, the delta that          *)
(* buildBalanceChanges yields for an owner is the sum of the raw amounts   *)
(* of all the owner's post-entries of the mint minus the sum of all its    *)
(* pre-entries of the mint, also when the owner has several entries; an    *)
(* owner without an entry has delta 0.                                     *)
(***************************************************************************)
C21_DeltaIsSumOfEntries ==
  out.done =>
    \A owner \in {Merchant, Payer} :
      MapGet(out.value, <<owner, inp.mint>>)
        = SumFor(inp.post, owner, inp.mint) - SumFor(inp.pre, owner, inp.mint)

----------------------------------------------------------------------------
(* Payment payload codec (src/unnamed/part_002) and the handler's parse    *)
(* step. Strings are sequences of code points, the JSON text a sequence of *)
(* code points, the header a sequence of Base64 digits 0..63 with 64 for   *)
(* the padding character.                                                   *)

\* the longest transaction string drawn as an input
MaxLen == 2

\* "network", "transaction", "reference"
KeyNetwork == <<110, 101, 116, 119, 111, 114, 107>>
KeyTransaction == <<116, 114, 97, 110, 115, 97, 99, 116, 105, 111, 110>>
KeyReference == <<114, 101, 102, 101, 114, 101, 110, 99, 101>>

RECURSIVE Flatten(_)
Flatten(ss) == IF ss = <<>> THEN <<>> ELSE Head(ss) \o Flatten(Tail(ss))

\* mutant of Quote: the string is not escaped
Quote_raw(str) == <<34>> \o str \o <<34>>

\* JSON.stringify of a string: quotes, with " \ and newline escaped
Quote(str) ==
  <<34>> \o Flatten([k \in DOMAIN str |->
                       CASE str[k] = 34 -> <<92, 34>>
                         [] str[k] = 92 -> <<92, 92>>
                         [] str[k] = 10 -> <<92, 110>>
                         [] OTHER -> <<str[k]>>])
         \o <<34>>

\* JSON.stringify(payload): the three members in the order of the interface
JSONstringify(payload) ==
  <<123>> \o Quote(KeyNetwork) \o <<58>> \o Quote(payload.network)
    \o <<44>> \o Quote(KeyTransaction) \o <<58>> \o Quote(payload.transaction)
    \o <<44>> \o Quote(KeyReference) \o <<58>> \o Quote(payload.reference)
    \o <<125>>

\* Buffer.from(json, 'utf-8'): code points below 2048 as one or two bytes
Utf8Encode(text) ==
  Flatten([k \in DOMAIN text |->
             IF text[k] < 128 THEN <<text[k]>>
             ELSE <<192 + (text[k] \div 64), 128 + (text[k] % 64)>>])

\* buffer.toString('utf-8'); a byte that starts no sequence decodes to U+FFFD
RECURSIVE Utf8Decode(_, _)
Utf8Decode(bytes, k) ==
  IF k > Len(bytes) THEN <<>>
  ELSE IF bytes[k] < 128 THEN <<bytes[k]>> \o Utf8Decode(bytes, k + 1)
  ELSE IF /\ bytes[k] \in 192..223 /\ k + 1 <= Len(bytes)
          /\ bytes[k + 1] \in 128..191
  THEN <<(bytes[k] - 192) * 64 + (bytes[k + 1] - 128)>>
         \o Utf8Decode(bytes, k + 2)
  ELSE <<65533>> \o Utf8Decode(bytes, k + 1)

\* buffer.toString('base64'): three bytes to four digits, padded with '='
RECURSIVE Base64Encode(_, _)
Base64Encode(bytes, k) ==
  LET left == Len(bytes) - k + 1
  IN IF left <= 0 THEN <<>>
     ELSE IF left = 1
     THEN <<bytes[k] \div 4, (bytes[k] % 4) * 16, 64, 64>>
     ELSE IF left = 2
     THEN <<bytes[k] \div 4,
            (bytes[k] % 4) * 16 + (bytes[k + 1] \div 16),
            (bytes[k + 1] % 16) * 4, 64>>
     ELSE <<bytes[k] \div 4,
            (bytes[k] % 4) * 16 + (bytes[k + 1] \div 16),
            (bytes[k + 1] % 16) * 4 + (bytes[k + 2] \div 64),
            bytes[k + 2] % 64>>
          \o Base64Encode(bytes, k + 3)

\* Buffer.from(headerValue, 'base64'): never throws; decoding stops at the
\* first padding character, a lone last digit is dropped
RECURSIVE Base64Decode(_, _)
Base64Decode(digits, k) ==
  LET stop == IF \E j \in k..Len(digits) : digits[j] = 64
              THEN (CHOOSE j \in k..Len(digits) :
                      digits[j] = 64 /\ \A h \in k..(j - 1) : digits[h] # 64) - 1
              ELSE Len(digits)
      left == stop - k + 1
  IN IF left <= 1 THEN <<>>
     ELSE IF left = 2
     THEN <<digits[k] * 4 + (digits[k + 1] \div 16)>>
     ELSE IF left = 3
     THEN <<digits[k] * 4 + (digits[k + 1] \div 16),
            (digits[k + 1] % 16) * 16 + (digits[k + 2] \div 4)>>
     ELSE <<digits[k] * 4 + (digits[k + 1] \div 16),
            (digits[k + 1] % 16) * 16 + (digits[k + 2] \div 4),
            (digits[k + 2] % 4) * 64 + digits[k + 3]>>
          \o Base64Decode(digits, k + 4)

\* a JSON.parse that threw
ParseFails == [ok |-> FALSE, t |-> "", v |-> 0, next |-> 0]

\* the characters of a JSON string from position k on, up to its closing
\* quote; acc holds the characters read so far
RECURSIVE ParseChars(_, _, _)
ParseChars(text, k, acc) ==
  IF k > Len(text) THEN ParseFails
  ELSE IF text[k] = 34
  THEN [ok |-> TRUE, t |-> "string", v |-> acc, next |-> k + 1]
  ELSE IF text[k] = 92
  THEN IF k + 1 > Len(text) THEN ParseFails
       ELSE IF text[k + 1] \in {34, 92, 47}
       THEN ParseChars(text, k + 2, Append(acc, text[k + 1]))
       ELSE IF text[k + 1] = 110 THEN ParseChars(text, k + 2, Append(acc, 10))
       ELSE ParseFails
  ELSE IF text[k] < 32 THEN ParseFails
  ELSE ParseChars(text, k + 1, Append(acc, text[k]))

\* a string, a one-digit number or null at position k
ParseScalar(text, k) ==
  IF k > Len(text) THEN ParseFails
  ELSE IF text[k] = 34 THEN ParseChars(text, k + 1, <<>>)
  ELSE IF text[k] \in 48..57
  THEN [ok |-> TRUE, t |-> "number", v |-> text[k] - 48, next |-> k + 1]
  ELSE IF k + 3 <= Len(text) /\ SubSeq(text, k, k + 3) = <<110, 117, 108, 108>>
  THEN [ok |-> TRUE, t |-> "null", v |-> 0, next |-> k + 4]
  ELSE ParseFails

\* the members of an object from position k on; a repeated key keeps the
\* last value
RECURSIVE ParseMembers(_, _, _)
ParseMembers(text, k, obj) ==
  IF k > Len(text) \/ text[k] # 34 THEN ParseFails
  ELSE LET key == ParseChars(text, k + 1, <<>>)
       IN IF ~key.ok \/ key.next > Len(text) \/ text[key.next] # 58
          THEN ParseFails
          ELSE LET val == ParseScalar(text, key.next + 1)
               IN IF ~val.ok \/ val.next > Len(text) THEN ParseFails
                  ELSE LET obj2 == [x \in DOMAIN obj \cup {key.v} |->
                                      IF x = key.v THEN [t |-> val.t, v |-> val.v]
                                      ELSE obj[x]]
                       IN IF text[val.next] = 44
                          THEN ParseMembers(text, val.next + 1, obj2)
                          ELSE IF text[val.next] = 125
                          THEN [ok |-> TRUE, t |-> "object", v |-> obj2,
                                next |-> val.next + 1]
                          ELSE ParseFails

\* JSON.parse(decoded), for texts without white space
JSONparse(text) ==
  LET r == IF Len(text) >= 2 /\ text[1] = 123 /\ text[2] = 125
           THEN [ok |-> TRUE, t |-> "object", v |-> NoFn, next |-> 3]
           ELSE IF Len(text) >= 1 /\ text[1] = 123
           THEN ParseMembers(text, 2, NoFn)
           ELSE ParseScalar(text, 1)
  IN IF r.ok /\ r.next = Len(text) + 1 THEN r ELSE ParseFails

encodePaymentPayload(payload) ==
  Base64Encode(Utf8Encode(JSONstringify(payload)), 1)

\* ok is FALSE when JSON.parse threw and the Error was thrown on
parsePaymentPayload(headerValue) ==
  JSONparse(Utf8Decode(Base64Decode(headerValue, 1), 1))

\* "true", "false", or "throws" when payload is null
validatePaymentPayload(payload) ==
  IF payload.t = "null" THEN "throws"
  ELSE IF payload.t # "object" THEN "false"
  ELSE IF \A key \in {KeyNetwork, KeyTransaction, KeyReference} :
            key \in DOMAIN payload.v /\ payload.v[key].t = "string"
  THEN "true" ELSE "false"

\* the PaymentPayload a parsed object is read as
AsPayload(obj) ==
  [network |-> obj[KeyNetwork].v,
   transaction |-> obj[KeyTransaction].v,
   reference |-> obj[KeyReference].v]

NoPayload == [network |-> <<>>, transaction |-> <<>>, reference |-> <<>>]

\* the try block of the handler up to the payload validation: "malformed"
\* when the parse or the validation threw or the validation answered false
parseStep(headerValue) ==
  LET parsed == parsePaymentPayload(headerValue)
  IN IF ~parsed.ok THEN [step |-> "malformed", payload |-> NoPayload]
     ELSE IF validatePaymentPayload(parsed) # "true"
     THEN [step |-> "malformed", payload |-> NoPayload]
     ELSE [step |-> "parsed", payload |-> AsPayload(parsed.v)]

\* the code points strings are drawn from: a, ", \, newline, e-acute
Alphabet == {97, 34, 92, 10, 233}

Payloads ==
  [network : SeqsUpTo(Alphabet, 1),
   transaction : SeqsUpTo(Alphabet, MaxLen),
   reference : SeqsUpTo(Alphabet, 1)]

\* JSON texts that are not a payload with three string members
MalformedTexts ==
  {<<123, 125>>,
   <<110, 117, 108, 108>>,
   <<53>>,
   <<123, 34, 110, 101, 116, 119, 111, 114, 107, 34, 58, 53, 44, 34, 116, 114, 97, 110, 115, 97, 99, 116, 105, 111, 110, 34, 58, 34, 97, 34, 44, 34, 114, 101, 102, 101, 114, 101, 110, 99, 101, 34, 58, 34, 97, 34, 125>>,
   <<123, 34, 110, 101, 116, 119, 111, 114, 107, 34, 58, 34, 97, 34, 44, 34, 116, 114, 97, 110, 115, 97, 99, 116, 105, 111, 110, 34, 58, 34, 97, 34, 125>>,
   <<123, 34, 110, 101, 116, 119, 111, 114, 107, 34>>,
   <<34, 97, 34>>,
   <<>>}

\* header values no encoder produced: one lone digit, and a payload followed
\* by padding and further digits
StrayHeaders ==
  {<<30>>,
   encodePaymentPayload(NoPayload) \o <<64, 30, 30>>}

InitPayload ==
  /\ now = 1
  /\ store = NoFn
  /\ paid = NoFn
  /\ ret = [op |-> "init"]
  /\ cfg = [mode |-> "none", prices |-> <<>>]
  /\ req = NoFn
  /\ issued = <<>>
  /\ chain = <<>>
  /\ marks = {}
  /\ inp \in [kind : {"payload"}, payload : Payloads, text : {<<>>},
               header : {<<>>}]
            \cup [kind : {"text"}, payload : {NoPayload}, text : MalformedTexts,
                  header : {<<>>}]
            \cup [kind : {"header"}, payload : {NoPayload}, text : {<<>>},
                  header : StrayHeaders]
  /\ out = [done |-> FALSE]

\* the client builds the header from a payload
EncodeHeader ==
  /\ inp.kind = "payload"
  /\ inp' = [inp EXCEPT !.kind = "header",
                        !.header = encodePaymentPayload(inp.payload)]
  /\ out' = [done |-> FALSE, encoded |-> TRUE]
  /\ UNCHANGED <<now, store, paid, ret, cfg, req, issued, chain, marks>>

\* a client sends a text that is no payload, transport-encoded
EncodeText ==
  /\ inp.kind = "text"
  /\ inp' = [inp EXCEPT !.kind = "header",
                        !.header = Base64Encode(Utf8Encode(inp.text), 1)]
  /\ out' = [done |-> FALSE, encoded |-> FALSE]
  /\ UNCHANGED <<now, store, paid, ret, cfg, req, issued, chain, marks>>

\* the handler parses and validates the header
ParseHeader ==
  /\ inp.kind = "header"
  /\ ~out.done
  /\ out' = [done |-> TRUE,
             encoded |-> "encoded" \in DOMAIN out /\ out.encoded,
             result |-> parseStep(inp.header)]
  /\ UNCHANGED <<now, store, paid, ret, cfg, req, issued, chain, marks, inp>>

NextPayload == EncodeHeader \/ EncodeText \/ ParseHeader

SpecPayload == InitPayload /\ [][NextPayload]_vars

(***************************************************************************)
(* C22: encoding and decoding are exact inverses: for every payload p,     *)
(* parsing the encoding of p gives p field for field; a header that does   *)
(* not decode to an object with string network, transaction and reference  *)
(* members is malformed.                                                    *)
(***************************************************************************)
C22_EncodeParseRoundTrip ==
  out.done =>
    IF out.encoded
    THEN out.result = [step |-> "parsed", payload |-> inp.payload]
    ELSE out.result.step = "malformed"
           <=> ~(\E p \in Payloads :
                   Base64Decode(inp.header, 1) = Utf8Encode(JSONstringify(p)))

\* a payload whose transaction holds a quote and a backslash came back
\* unchanged through the header
C22_Witness ==
  /\ out.done /\ out.encoded
  /\ inp.payload.transaction = <<34, 92>>
  /\ inp.payload.network = <<233>>
  /\ out.result.payload = inp.payload

(***************************************************************************)
(* C23: within a request pass the ledger is touched in a fixed order and   *)
(* only after the earlier gates: a malformed payload or a payload of       *)
(* another network causes no ledger call and no cache call; sendTransaction*)
(* follows only a valid verifySignedTransaction of the same pass; the      *)
(* polls follow the broadcast and getTransaction the polls; and the        *)
(* validation step itself broadcasts nothing.                              *)
(***************************************************************************)
C23_LedgerCallsInOrder ==
  /\ [](\A i \in Reqs :
          LET r == req[i]
          IN /\ (r.mode = "settle"
                   /\ \/ r.hdr.kind \in {"unparseable", "badFields"}
                      \/ r.hdr.kind = "payload" /\ r.hdr.network # Network)
                  => r.calls = <<>> /\ r.cache = <<>> /\ r.outcome # "proceed"
             /\ \A k \in DOMAIN r.calls :
                  /\ r.calls[k] = "simulateTransaction" => k = 1
                  /\ r.calls[k] = "sendTransaction"
                       => /\ k > 1
                          /\ r.calls[1] = "simulateTransaction"
                          /\ r.steps[2] = "validated"
                          /\ \A j \in 1..(k - 1) : r.calls[j] # "sendTransaction"
                  /\ r.calls[k] = "getSignatureStatuses"
                       => k > 1 /\ r.calls[k - 1] = "sendTransaction"
                  /\ r.calls[k] = "getTransaction" /\ r.mode = "settle"
                       => k > 1 /\ r.calls[k - 1] = "getSignatureStatuses")
  /\ [][\A i \in Reqs :
          (req[i].pc = "sim" /\ req'[i].pc # "sim") => chain' = chain]_vars

\* request a came with a payload of another network and got its 402 without
\* a ledger call; request b went through the whole order and proceeded
C23_Witness ==
  /\ req["a"].hdr.kind = "payload" /\ req["a"].hdr.network # Network
  /\ req["a"].steps = <<"noMatch">>
  /\ req["a"].pc = "done" /\ req["a"].outcome = "reject"
  /\ req["a"].calls = <<>>
  /\ req["b"].calls = <<"simulateTransaction", "sendTransaction",
                        "getSignatureStatuses", "getTransaction">>
  /\ req["b"].outcome = "proceed"

\* whether an acknowledgement carries a signature
AckGood(response) ==
  \/ response.shape = "string" /\ response.value # ""
  \/ response.shape = "object" /\ response.value # ""

\* the attempts within the budget whose answer ends the polling
DecisiveAttempts(poll) ==
  {a \in 0..(maxAttempts - 1) : StatusAt(poll, a) \notin {"null", "processed"}}

(***************************************************************************)
(* C24: the confirmation polling is bounded: after a broadcast,            *)
(* sendSignedTransaction makes at most 30 getSignatureStatuses polls and   *)
(* returns; when none of them reported an error or a confirmed or          *)
(* finalized status it returns the timeout failure after exactly 30.       *)
(***************************************************************************)
C24_PollingBounded ==
  out.done =>
    /\ out.value.polls <= maxAttempts
    /\ (AckGood(inp.response) /\ DecisiveAttempts(inp.poll) = {})
         => /\ out.value.polls = maxAttempts
            /\ ~out.value.success
            /\ out.value.error = "timeout"
            /\ out.value.signature = inp.response.value

\* a transaction that stayed at "processed" through all polls timed out
C24_Witness ==
  /\ out.done
  /\ AckGood(inp.response)
  /\ inp.poll.at = maxAttempts - 1 /\ inp.poll.low = 1
  /\ out.value.polls = maxAttempts
  /\ out.value.error = "timeout"

(***************************************************************************)
(* C25: the Submitter's outcome: an acknowledgement that is neither a      *)
(* string nor an object with a string value fails without a poll;          *)
(* otherwise the first poll whose status carries an error fails at once,   *)
(* also when that status reports confirmed; the first poll reporting       *)
(* confirmed or finalized without error succeeds; an absent status or one  *)
(* of lower commitment never succeeds and the polling goes on.             *)
(***************************************************************************)
C25_SubmitterClassifies ==
  out.done =>
    LET response == inp.response
        decisive == DecisiveAttempts(inp.poll)
        first == CHOOSE a \in decisive : \A b \in decisive : a <= b
        status == StatusAt(inp.poll, first)
    IN /\ (response.shape \notin {"string", "object"}
            \/ (response.shape = "object" /\ response.value = ""))
           => ~out.value.success /\ out.value.polls = 0
       /\ (AckGood(response) /\ decisive # {})
           => /\ out.value.polls = first + 1
              /\ status \in {"error", "confirmedError"}
                   => ~out.value.success /\ out.value.error = "failed"
              /\ status \in {"confirmed", "finalized"}
                   => out.value.success
                      /\ out.value.signature = response.value
       /\ out.value.success
           => /\ AckGood(response) /\ decisive # {}
              /\ status \in {"confirmed", "finalized"}

\* an absent status, then "processed", then a status that is confirmed and
\* carries an error: the third poll fails
C25_Witness ==
  /\ out.done
  /\ inp.response = [shape |-> "object", value |-> "s1"]
  /\ inp.poll = [at |-> 1, low |-> 1, status |-> "confirmedError"]
  /\ out.value.polls = 3
  /\ ~out.value.success

\* a simulation error outside the blockhash-expired class
HardSimError(sim) ==
  /\ sim.kind = "ok"
  /\ sim.err # ""
  /\ sim.err \notin BlockhashClass

(***************************************************************************)
(* C26: pre-submission validation answers invalid for an empty blob, a     *)
(* blob below the minimum size, a blob declaring zero signatures, a        *)
(* simulation error outside the blockhash-expired class, a simulation log  *)
(* reporting a signature-verification failure, and a simulated net amount  *)
(* received by the recipient below floor(amount * 10^decimals), each       *)
(* whatever the later checks would say.                                    *)
(***************************************************************************)
C26_ValidatorRejects ==
  out.done =>
    LET blob == inp.blob
        sim == inp.sim
        rq == inp.requirement
    IN (\/ blob.len = 0
        \/ blob.len < MinTxLen
        \/ blob.nsig = 0
        \/ HardSimError(sim)
        \/ sim.kind = "ok" /\ sim.sigFailLog
        \/ /\ sim.kind = "ok"
           /\ NetReceived(sim, rq.recipient, rq.mint)
                < ExactRequiredRaw(rq.amount, 6))
       => ~out.value.valid

(***************************************************************************)
(* C27: a simulation error is tolerated only in the blockhash-expired      *)
(* class: a transaction whose simulation reports such an error goes on to  *)
(* the balance check and, when that passes, to the broadcast; a simulation *)
(* error of any other class is never followed by a broadcast in the pass.  *)
(***************************************************************************)
C27_OnlyBlockhashErrorsTolerated ==
  \A i \in Reqs :
    LET r == req[i]
        rq == RequirementOf(r)
        sim == Tx(r.hdr.tx).sim
        received == MapGet(buildBalanceChanges(sim.pre, sim.post, rq.mint),
                           <<rq.recipient, rq.mint>>)
        required == calculateRequiredAmountRaw(
                      rq.amount, getTokenDecimals(rq.mint, sim.post \o sim.pre,
                                                  SupplyOf(r.hdr.tx, rq.mint)))
    IN /\ r.simErr \in BlockhashClass
           => /\ "validated" \in Range(r.steps) <=> ~(received < required)
              /\ "validated" \in Range(r.steps)
                   => r.pc = "send" \/ "sendTransaction" \in Range(r.calls)
       /\ r.simErr \notin BlockhashClass \cup {"", "none"}
           => /\ "sendTransaction" \notin Range(r.calls)
              /\ "validated" \notin Range(r.steps)
              /\ r.pc \in {"reject", "done"}
              /\ r.outcome # "proceed"
              /\ \A k \in DOMAIN chain : chain[k].by # i

\* request a's simulation reported BlockhashNotFound, the balance check
\* passed and the transaction was broadcast and settled; request b's
\* reported the same error, the balance check failed and it got its 402
C27_Witness ==
  /\ req["a"].simErr = "BlockhashNotFound"
  /\ req["a"].steps = <<"cacheMiss", "validated", "broadcast", "sent",
                        "confirmed", "markPaid">>
  /\ req["a"].outcome = "proceed"
  /\ req["b"].simErr = "BlockhashNotFound"
  /\ req["b"].steps = <<"cacheMiss", "invalid">>
  /\ req["b"].outcome = "reject"

\* the binding as the design states it: the reference is a top-level account
\* key, or an account of an inner instruction that decodes as a token transfer
ReferenceInKeysOrInner(tx, reference) ==
  \/ referenceInAccountKeys(tx.accountKeys, reference)
  \/ \E k \in DOMAIN tx.inner :
       /\ tx.inner[k].parsed
       /\ tx.inner[k].type = "transfer"
       /\ reference \in Range(tx.inner[k].accounts)

(***************************************************************************)
(* C28: the reference-binding check is true iff the reference is among the *)
(* transaction's top-level account keys or among the accounts of an inner  *)
(* instruction that decodes as a token transfer: for a finalized,          *)
(* error-free transaction that passes the Confirmer's amount comparison,   *)
(* the Confirmer answers true exactly when the reference is bound so.      *)
(***************************************************************************)
C28_BindingScansInnerInstructions ==
  out.done =>
    LET tx == inp.tx
        rq == inp.requirement
        received == MapGet(buildBalanceChanges(tx.pre, tx.post, rq.mint),
                           <<rq.recipient, rq.mint>>)
        required == calculateRequiredAmountRaw(
                      rq.amount, getTokenDecimals(rq.mint, tx.post \o tx.pre,
                                                  TokenSupply(rq.mint)))
    IN (tx.fetch = "ok" /\ ~tx.err /\ ~(received < required))
         => (out.value <=> ReferenceInKeysOrInner(tx, rq.reference))

(***************************************************************************)
(* C29: token decimals are the decimals embedded in a balance entry of the *)
(* mint, else the decimals the mint's on-chain metadata reports, else the  *)
(* default 6; the default is used only when both are unavailable, so a     *)
(* metadata value of 0 is used as 0.                                       *)
(***************************************************************************)
C29_DecimalsResolutionOrder ==
  out.done =>
    LET embedded == decimalsFromBalances(inp.mint, inp.tokenBalances)
    IN out.value =
         IF embedded # <<>> THEN embedded[1]
         ELSE IF inp.supply.kind \in {"number", "bigint"}
         THEN inp.supply.decimals
         ELSE 6

(***************************************************************************)
(* C30: the Verify-Only check is equivalent to the Confirmer: for every    *)
(* finalized transaction and requirement, the verdict of the loop body of  *)
(* verifyPaymentByReference (balance-delta path and inner-instruction path *)
(* together) equals the verdict of verifyTransactionConfirmed.             *)
(***************************************************************************)
C30_VerifyOnlyEqualsConfirmer ==
  (out.done /\ inp.tx.fetch = "ok") => (out.verifier <=> out.confirmer)

\* the transactions recorded for an address, most recent first, as far back
\* as the lookup goes
MostRecent(reference) ==
  LET named == SelectSeq(chain,
                 LAMBDA e : reference \in Range(Tx(e.tx).rec.accountKeys))
      n == Len(named)
  IN [j \in 1..(IF n < SigLimit THEN n ELSE SigLimit) |-> named[n + 1 - j].tx]

\* a recorded transaction that pays for the presented reference
Qualifying(t, opts) ==
  /\ Tx(t).rec.fetch = "ok"
  /\ ~Tx(t).rec.err
  /\ qualifies(Tx(t).rec, opts)

(***************************************************************************)
(* C31 as stated: verifyPaymentByReference answers true iff one of the at  *)
(* most 5 most recent transactions of the reference qualifies.             *)
(***************************************************************************)
C31_TrueIffOneQualifies ==
  (out.done /\ inp.rpc = "ok") =>
    (out.value <=>
       \E j \in DOMAIN MostRecent(inp.opts.reference) :
          Qualifying(MostRecent(inp.opts.reference)[j], inp.opts))

(***************************************************************************)
(* C31: verifyPaymentByReference only reads the ledger                     *)
(* (getSignaturesForAddress, getTransaction); it fetches at most the 5     *)
(* most recent transactions of the reference, most recent first; a missing *)
(* or failed transaction does not end the search; and it answers true iff  *)
(* one of those transactions qualifies and neither getSignaturesForAddress *)
(* nor the getTransaction of a more recent signature threw.                *)
(***************************************************************************)
C31_LookupReadOnlyBounded ==
  out.done =>
    LET recent == MostRecent(inp.opts.reference)
        Throws(j) == Tx(recent[j]).rec.fetch = "throws"
        Ends(j) == Throws(j) \/ Qualifying(recent[j], inp.opts)
    IN /\ Range(out.calls) \subseteq {"getSignaturesForAddress",
                                       "getTransaction"}
       /\ Len(out.fetched) <= SigLimit
       /\ \A j \in DOMAIN out.fetched :
            j \in DOMAIN recent /\ out.fetched[j] = recent[j]
       /\ inp.rpc = "ok" =>
            \A j \in DOMAIN recent :
               (\A i \in 1..(j - 1) : ~Ends(i)) => j \in DOMAIN out.fetched
       /\ out.value <=>
            /\ inp.rpc = "ok"
            /\ \E j \in DOMAIN recent :
                 /\ Qualifying(recent[j], inp.opts)
                 /\ \A i \in 1..(j - 1) : ~Throws(i)

\* six transactions name the reference; the lookup passes over a missing and
\* a failed one and finds the payment at the third signature
C31_Witness ==
  /\ out.done
  /\ inp.rpc = "ok"
  /\ Len(chain) = 6
  /\ \A k \in DOMAIN chain : "r1" \in Range(Tx(chain[k].tx).rec.accountKeys)
  /\ out.fetched = <<"tto", "terr", "t1">>
  /\ out.value

\* the markPaid calls made for a reference in a mode, the last ones first
LastMarks(mode, reference) ==
  {m \in marks :
     /\ m.mode = mode
     /\ m.ref = reference
     /\ \A m2 \in marks :
          (m2.mode = mode /\ m2.ref = reference) => m2.at <= m.at}

(***************************************************************************)
(* C32: a cache hit does not extend a reference's lifetime: the step in    *)
(* which a request finds its reference paid leaves both stores unchanged   *)
(* and calls no markPaid, so every entry expires at t0 + ttl, t0 being the *)
(* time of the last markPaid for its reference, however many requests hit  *)
(* the cache before.                                                       *)
(***************************************************************************)
C32_CacheHitKeepsExpiry ==
  /\ [][\A i \in Reqs :
          (req[i].pc = "idle" /\ req'[i].steps = <<"cacheHit">>)
            => (store' = store /\ paid' = paid /\ marks' = marks)]_vars
  /\ [](\A i \in Reqs :
          req[i].steps = <<"cacheHit">>
            => (req[i].pc = "done" /\ "markPaid" \notin Range(req[i].cache)))
  /\ [](\A x \in DOMAIN store :
          \E m \in LastMarks("settle", x) :
             /\ store[x].expiry = m.at + TtlMs
             /\ store[x].signature = m.sig)
  /\ [](\A x \in DOMAIN paid :
          \E m \in LastMarks("verify", x) : paid[x] = m.at + TtlMs)

\* a request hits the cache after the settlement's clock tick, and the entry
\* still expires ttl after the settlement
C32_Witness ==
  \E i \in Reqs :
     /\ req[i].steps = <<"cacheHit">>
     /\ req[i].mode = "settle"
     /\ req[i].hdr.ref \in DOMAIN store
     /\ \E m \in LastMarks("settle", req[i].hdr.ref) :
          /\ m.at < now
          /\ now <= store[req[i].hdr.ref].expiry
          /\ store[req[i].hdr.ref].expiry = m.at + TtlMs

\* request i takes a step in which it does not call markPaid
StepsWithoutMark(i) ==
  req'[i] # req[i] /\ "markPaid" \notin Range(req'[i].cache)

\* a cache is left as it was, or loses the entry of this reference, which
\* had expired
OnlyLazyDelete(before, after, reference, expired) ==
  \/ after = before
  \/ /\ reference \in DOMAIN before
     /\ expired
     /\ after = Restrict(before, DOMAIN before \ {reference})

(***************************************************************************)
(* C33: a request that ends in Reject leaves the cache unchanged except    *)
(* for the lazy deletion of an expired entry of its own reference: every   *)
(* step of a request that calls no markPaid leaves each store as it was or *)
(* removes only the expired entry of the reference presented; a rejected   *)
(* request has called no markPaid; and a store grows only in the step in   *)
(* which a request's payment is confirmed and the request proceeds.        *)
(***************************************************************************)
C33_RejectLeavesCache ==
  /\ [][\A i \in Reqs :
          StepsWithoutMark(i) =>
            LET reference == req'[i].hdr.ref
            IN /\ OnlyLazyDelete(store, store', reference,
                     reference \in DOMAIN store
                       /\ now > store[reference].expiry)
               /\ OnlyLazyDelete(paid, paid', reference,
                     reference \in DOMAIN paid /\ now > paid[reference])]_vars
  /\ [](\A i \in Reqs :
          req[i].outcome = "reject" => "markPaid" \notin Range(req[i].cache))
  /\ [][(\/ Cardinality(DOMAIN store') > Cardinality(DOMAIN store)
         \/ Cardinality(DOMAIN paid') > Cardinality(DOMAIN paid)) =>
          \E i \in Reqs :
             /\ req[i].pc \in {"confirm", "verify"}
             /\ req'[i].outcome = "proceed"
             /\ LET n == Len(req'[i].steps)
                IN /\ req'[i].steps[n] = "markPaid"
                   /\ req'[i].steps[n - 1] \in {"confirmed", "verified"}]_vars

\* a request is rejected after its lookup deleted the expired entry of its
\* reference, and the live entry of another reference is still there
C33_Witness ==
  /\ req["a"].outcome = "reject"
  /\ req["a"].steps[1] = "cacheMiss"
  /\ req["a"].hdr.ref = "r1"
  /\ \E m \in marks : m.ref = "r1" /\ m.at + TtlMs < now
  /\ "r1" \notin DOMAIN store
  /\ "r2" \in DOMAIN store
  /\ now <= store["r2"].expiry

(***************************************************************************)
(* C34: for two concurrent requests that carry the same payload, the cache *)
(* check and the later markPaid act as one atomic step: sendTransaction is *)
(* called at most once for the transaction, and at most one of the two     *)
(* requests that found no entry for the reference calls markPaid.          *)
(***************************************************************************)
C34_SamePayloadSettledOnce ==
  (/\ req["a"].hdr.kind = "payload"
   /\ req["a"].mode = "settle"
   /\ req["b"].mode = "settle"
   /\ req["a"].hdr = req["b"].hdr) =>
     /\ CallCount(req["a"], "sendTransaction")
          + CallCount(req["b"], "sendTransaction") <= 1
     /\ Cardinality({i \in Reqs :
                       /\ req[i].steps # <<>>
                       /\ req[i].steps[1] = "cacheMiss"
                       /\ "markPaid" \in Range(req[i].cache)}) <= 1

\* the ledger has executed, without error, the transaction request i
\* carried, and it was request i that broadcast it
SettledByOwnBroadcast(i) ==
  /\ req[i].hdr.kind = "payload"
  /\ ~Tx(req[i].hdr.tx).rec.err
  /\ \E k \in DOMAIN chain :
       chain[k].tx = req[i].hdr.tx /\ chain[k].by = i /\ chain[k].landed

Satisfies(t, price, reference) ==
  LET required == ExactRequiredRaw(NumberToString(price.amount), 6)
  IN /\ t.blob.len >= MinTxLen /\ t.blob.nsig > 0
     /\ t.sim.kind = "ok" /\ ~t.sim.sigFailLog
     /\ t.sim.err \in {""} \cup BlockhashClass
     /\ NetReceived(t.sim, price.recipient, price.mint) >= required
     /\ t.ack.shape = "string"
     /\ t.poll.at < maxAttempts
     /\ t.poll.status \in {"confirmed", "finalized"}
     /\ t.rec.fetch = "ok" /\ ~t.rec.err
     /\ NetReceived(t.rec, price.recipient, price.mint) >= required
     /\ referenceInAccountKeys(t.rec.accountKeys, reference)

(***************************************************************************)
(* C36: every requirement advertised in a 402 response is honoured: when   *)
(* the payload's network matches and its transaction pays any one of the   *)
(* configured prices (mint, amount, recipient) and names the payload's     *)
(* reference, the pass ends in Proceed; and the requirement the handler    *)
(* validates against has the network, mint, amount and recipient of an     *)
(* advertised one.                                                         *)
(***************************************************************************)
C36_AnyAdvertisedRequirementHonoured ==
  out.done =>
    /\ (/\ inp.payload.network = Network
        /\ \E k \in DOMAIN inp.configs :
             Satisfies(Tx(inp.payload.tx), inp.configs[k], inp.payload.ref))
          => out.proceed
    /\ out.requirement # <<>> =>
         \E k \in DOMAIN out.advertised :
            /\ out.advertised[k].network = out.requirement[1].network
            /\ out.advertised[k].mint = out.requirement[1].mint
            /\ out.advertised[k].amount = out.requirement[1].amount
            /\ out.advertised[k].recipient = out.requirement[1].recipient

\* the recorded transactions that pay the configured price for a reference
PaymentsFor(reference) ==
  {t \in LandedTxs :
     /\ referenceInAccountKeys(Tx(t).rec.accountKeys, reference)
     /\ Qualifying(t, [reference |-> reference,
                       mint |-> cfg.prices[1].mint,
                       recipient |-> cfg.prices[1].recipient,
                       amount |-> cfg.prices[1].amount])}

(***************************************************************************)
(* C37: in Verify-Only mode one on-chain payment buys access for one TTL   *)
(* window only: when a reference is marked paid again after the entry of   *)
(* an earlier markPaid has expired, a second qualifying transaction has    *)
(* been recorded for that reference.                                       *)
(***************************************************************************)
C37_OnePaymentOneWindow ==
  \A m1, m2 \in marks :
     (/\ m1.mode = "verify" /\ m2.mode = "verify"
      /\ m1.ref = m2.ref
      /\ m1.at + TtlMs < m2.at)
        => Cardinality(PaymentsFor(m1.ref)) >= 2

(***************************************************************************)
(* C38: one settlement pays for one reference: no settlement signature is  *)
(* stored for two distinct references in Submit-and-Settle mode, and in    *)
(* Verify-Only mode no single recorded transaction is the only payment     *)
(* behind the markPaid of two distinct references.                         *)
(***************************************************************************)
C38_OneSettlementOneReference ==
  \A m1, m2 \in marks :
     /\ (m1.mode = "settle" /\ m2.mode = "settle" /\ m1.sig = m2.sig)
          => m1.ref = m2.ref
     /\ (m1.mode = "verify" /\ m2.mode = "verify" /\ m1.ref # m2.ref)
          => ~\E t \in LandedTxs :
                PaymentsFor(m1.ref) = {t} /\ PaymentsFor(m2.ref) = {t}

(***************************************************************************)
(* C39: on a cache hit the outcome does not depend on the transaction: any *)
(* two requests that name the configured network and the same cached,      *)
(* unexpired reference both proceed with the same success header, which    *)
(* carries the cached signature, whatever transaction each carries, and    *)
(* neither calls the ledger.                                               *)
(***************************************************************************)
C39_CacheHitIgnoresTransaction ==
  \A i, j \in Reqs :
     (/\ req[i].pc # "idle"
      /\ req[j].pc # "idle"
      /\ req[i].hdr.ref = req[j].hdr.ref) =>
        /\ req[i].steps = <<"cacheHit">>
        /\ req[i].pc = "done"
        /\ req[i].outcome = "proceed"
        /\ req[i].nexts = 1
        /\ req[i].sends = 0
        /\ req[i].calls = <<>>
        /\ req[i].resp.header = req[j].resp.header
        /\ \E m \in marks :
             /\ m.ref = req[i].hdr.ref
             /\ req[i].resp.header = encodeResponse(m.sig)
        /\ \A k \in DOMAIN chain : chain[k].by \notin Reqs

\* two requests name the cached r1, one with the transaction that settled
\* it before and one with an empty transaction; both proceed with the
\* signature s1
C39_Witness ==
  /\ req["a"].hdr.ref = "r1"
  /\ req["b"].hdr.ref = "r1"
  /\ req["a"].hdr.tx = "tbad"
  /\ req["b"].hdr.tx = "tempty"
  /\ req["a"].outcome = "proceed"
  /\ req["b"].outcome = "proceed"
  /\ req["a"].resp.header = encodeResponse("s1")
  /\ req["b"].resp.header = encodeResponse("s1")

(***************************************************************************)
(* C40: whenever the ledger acknowledged the broadcast with a signature,   *)
(* the result of sendSignedTransaction carries that signature, for every   *)
(* outcome (success, on-chain failure, timeout, a status poll that         *)
(* throws); the signature field is empty only when the broadcast yielded   *)
(* no signature.                                                           *)
(***************************************************************************)
C40_ResultCarriesAcknowledgedSignature ==
  out.done =>
    /\ AckGood(inp.response) => out.value.signature = inp.response.value
    /\ out.value.signature = "" => ~AckGood(inp.response)
====
